---- MODULE Spec2Model ----
(***************************************************************************)
(* A model of github.com/voidshard/tile: the typed property bag            *)
(* (Properties), the CSV grid codec (encodeCSV / decodeCSV), the in-memory *)
(* TMX map (Map: New, Set, At, Properties, SetProperties, ZLevels, Fits,   *)
(* Add, Encode, Decode).                                                   *)
(*                                                                         *)
(* Go strings that the code formats or parses (layer names, property       *)
(* values, grid text) are sequences of one-character strings, so that      *)
(* formatting and parsing are computed and not assumed.  Image sources are *)
(* opaque keys and stay TLA+ strings.  A Go map is a function on the set   *)
(* of its keys.  A *Properties is a record whose isNil field tells the nil *)
(* pointer from a bag.  A *Tile is the index of the tile in Tileset.Tiles. *)
(***************************************************************************)
EXTENDS Integers, Sequences, FiniteSets, TLC

VARIABLES
    pa,      \* SpecBag: the bag A (a *Properties)
    pb,      \* SpecBag: the bag B (a *Properties)
    plast,   \* SpecBag: the last bag operation, its arguments and the bag before it
    grid,    \* SpecCodec: [w, h, ids] the input of encodeCSV
    text,    \* SpecCodec: Data.RawData, the text encodeCSV produced
    gout,    \* SpecCodec: the result of decodeCSV: [done, err, gids]
    base,    \* the base Map m
    obj,     \* the object Map o (the tile object placed by Fits / Add)
    last,    \* the last Map operation: arguments, results, the map before it
    file,    \* the encoded document written by Map.Encode
    dm,      \* the result of Decode(file): [done, err, m]
    nops,    \* how many operations have changed base, obj and the decoded map
    store,   \* the InfiniteMap: the rows of its tables tiles and properties
    sres,    \* the last InfiniteMap operation: arguments, results, the store before it
    calls       \* the callers of InfiniteMap.Add that run side by side: where each one is

vars == <<pa, pb, plast, grid, text, gout, base, obj, last, file, dm, nops, store, sres, calls>>

bagVars == <<pa, pb, plast>>
codecVars == <<grid, text, gout>>
mapVars == <<base, obj, last, file, dm, nops>>
storeVars == <<store, sres, calls>>

-----------------------------------------------------------------------------
(* Characters, strconv.Itoa / fmt "%d", strconv.ParseInt, strconv.ParseUint *)

Digits == <<"0", "1", "2", "3", "4", "5", "6", "7", "8", "9">>

DigitSet == {Digits[i] : i \in 1..10}

DigitVal(c) == (CHOOSE i \in 1..10 : Digits[i] = c) - 1

RECURSIVE Utoa(_)
Utoa(n) == IF n < 10 THEN <<Digits[n + 1]>>
           ELSE Utoa(n \div 10) \o <<Digits[(n % 10) + 1]>>

\* strconv.Itoa(n), fmt.Sprintf("%d", n)
Itoa(n) == IF n < 0 THEN <<"-">> \o Utoa(0 - n) ELSE Utoa(n)

RECURSIVE DigitsValue(_)
DigitsValue(s) == IF s = <<>> THEN 0
                  ELSE 10 * DigitsValue(SubSeq(s, 1, Len(s) - 1)) + DigitVal(s[Len(s)])

AllDigits(s) == \A i \in 1..Len(s) : s[i] \in DigitSet

RECURSIVE StripZeros(_)
StripZeros(s) == IF Len(s) > 1 /\ s[1] = "0" THEN StripZeros(Tail(s)) ELSE s

\* 2^32 - 1 as a numeral: the largest value ParseUint(s, 10, 32) accepts
MaxUint32Numeral == <<"4", "2", "9", "4", "9", "6", "7", "2", "9", "5">>

RECURSIVE NumeralLeq(_, _)
\* a <= b for two numerals of the same length without leading zeros
NumeralLeq(a, b) == IF a = <<>> THEN TRUE
                    ELSE IF DigitVal(a[1]) < DigitVal(b[1]) THEN TRUE
                    ELSE IF DigitVal(a[1]) > DigitVal(b[1]) THEN FALSE
                    ELSE NumeralLeq(Tail(a), Tail(b))

FitsUint32(s) == LET t == StripZeros(s)
                 IN  \/ Len(t) < Len(MaxUint32Numeral)
                     \/ Len(t) = Len(MaxUint32Numeral) /\ NumeralLeq(t, MaxUint32Numeral)

\* strconv.ParseUint(s, 10, 32): [ok, val]; no sign, at least one digit,
\* digits only, value below 2^32
ParseUint(s) == IF s # <<>> /\ AllDigits(s) /\ FitsUint32(s)
                THEN [ok |-> TRUE, val |-> DigitsValue(s)]
                ELSE [ok |-> FALSE, val |-> 0]

\* 2^63 - 1 and 2^63 as numerals: the largest magnitudes ParseInt(s, 10, 64)
\* accepts without and with the minus sign
MaxInt64Numeral == <<"9", "2", "2", "3", "3", "7", "2", "0", "3", "6",
                     "8", "5", "4", "7", "7", "5", "8", "0", "7">>
MinInt64Numeral == <<"9", "2", "2", "3", "3", "7", "2", "0", "3", "6",
                     "8", "5", "4", "7", "7", "5", "8", "0", "8">>

MaxInt64 == 2^63 - 1
MinInt64 == 0 - 2^63

\* !neg && un >= cutoff, neg && un > cutoff: the digits are within the range
FitsInt64(body, neg) ==
    LET t == StripZeros(body)
        max == IF neg THEN MinInt64Numeral ELSE MaxInt64Numeral
    IN  \/ Len(t) < Len(max)
        \/ Len(t) = Len(max) /\ NumeralLeq(t, max)

\* the numeral of s without its sign, and whether the sign is a minus
IntBody(s) == IF s # <<>> /\ s[1] \in {"-", "+"} THEN Tail(s) ELSE s
IntNeg(s) == s # <<>> /\ s[1] = "-"

\* err == nil of strconv.ParseInt(s, 10, 64): an optional sign, then digits
\* that stand for a value of int64
ParseIntOk(s) ==
    /\ IntBody(s) # <<>>
    /\ AllDigits(IntBody(s))
    /\ FitsInt64(IntBody(s), IntNeg(s))

\* 2^64 - 1 as a numeral: the largest value the digit loop of ParseUint
\* holds with bitSize 64
MaxUint64Numeral == <<"1", "8", "4", "4", "6", "7", "4", "4", "0", "7",
                      "3", "7", "0", "9", "5", "5", "1", "6", "1", "5">>

RECURSIVE DigitPrefix(_)
\* the digits ParseUint reads before it meets a byte that is no digit
DigitPrefix(s) == IF s = <<>> \/ s[1] \notin DigitSet THEN <<>>
                  ELSE <<s[1]>> \o DigitPrefix(Tail(s))

\* the digit loop of ParseUint returns (maxVal, ErrRange) as soon as the
\* digits read so far pass 2^64 - 1, whatever follows them
OverflowsUint64(body) ==
    LET t == StripZeros(DigitPrefix(body))
    IN  \/ Len(t) > Len(MaxUint64Numeral)
        \/ Len(t) = Len(MaxUint64Numeral) /\ ~NumeralLeq(t, MaxUint64Numeral)

\* the value strconv.ParseInt(s, 10, 64) returns: the nearest end of int64
\* with a range error (the digits pass 2^64 - 1 before a byte that is no
\* digit is met, or all are digits and the value is outside int64), 0 with
\* a syntax error
ParseIntVal(s) ==
    IF OverflowsUint64(IntBody(s)) THEN (IF IntNeg(s) THEN MinInt64 ELSE MaxInt64)
    ELSE IF IntBody(s) = <<>> \/ ~AllDigits(IntBody(s)) THEN 0
    ELSE IF ~FitsInt64(IntBody(s), IntNeg(s))
         THEN (IF IntNeg(s) THEN MinInt64 ELSE MaxInt64)
    ELSE IF IntNeg(s) THEN 0 - DigitsValue(IntBody(s)) ELSE DigitsValue(IntBody(s))

\* strconv.ParseInt(s, 10, 64): [ok, val]
ParseInt(s) == [ok |-> ParseIntOk(s), val |-> ParseIntVal(s)]

-----------------------------------------------------------------------------
(* Properties: the typed property bag                                      *)

PropString == "string"
PropInt == "int"
PropBool == "bool"

\* the keys, in sorted order (the order json.Marshal writes a map in)
KeySeq == <<"k1", "k2">>
Keys == {KeySeq[i] : i \in 1..Len(KeySeq)}

\* for k, v := range aMap: Go meets the keys of a map in an order that it
\* does not specify and that changes from one loop to the next.  An order is
\* a sequence that holds every key once; a loop meets the keys the map has
\* in the order they stand in it.
KeyOrders == {ks \in [1..Len(KeySeq) -> Keys] :
                 \A i \in 1..Len(KeySeq), j \in 1..Len(KeySeq) : i # j => ks[i] # ks[j]}

\* the orders of the three loops of one toList call
ListOrders == [ints : KeyOrders, bools : KeyOrders, strings : KeyOrders]

\* the orders that tell the loops over a map with the keys ks apart: with
\* fewer than two keys every order meets them alike
KeyOrdersOver(ks) == IF Cardinality(ks) < 2 THEN {KeySeq} ELSE KeyOrders

IntVals == {1, 2}
StrVals == {<<"a">>, <<"1">>}
BoolVals == {TRUE, FALSE}

EmptyMap == <<>>

\* the nil *Properties
NilProps == [isNil |-> TRUE, ints |-> EmptyMap, strings |-> EmptyMap, bools |-> EmptyMap]

NewProperties == [isNil |-> FALSE, ints |-> EmptyMap, strings |-> EmptyMap, bools |-> EmptyMap]

\* mp[k] = v
MapPut(mp, k, v) == [x \in (DOMAIN mp) \cup {k} |-> IF x = k THEN v ELSE mp[x]]

\* delete(mp, k)
MapDelete(mp, k) == [x \in (DOMAIN mp) \ {k} |-> mp[x]]

\* for k, v := range src { dst[k] = v }
MapCopyInto(dst, src) == [x \in (DOMAIN dst) \cup (DOMAIN src) |->
                            IF x \in DOMAIN src THEN src[x] ELSE dst[x]]

SetString(p, key, value) ==
    [p EXCEPT !.strings = MapPut(p.strings, key, value),
              !.ints = MapDelete(p.ints, key),
              !.bools = MapDelete(p.bools, key)]

\* SetInt without the two deletes
SetIntNoEvict(p, key, value) == [p EXCEPT !.ints = MapPut(p.ints, key, value)]

SetInt(p, key, value) ==
    [p EXCEPT !.ints = MapPut(p.ints, key, value),
              !.strings = MapDelete(p.strings, key),
              !.bools = MapDelete(p.bools, key)]

SetBool(p, key, value) ==
    [p EXCEPT !.bools = MapPut(p.bools, key, value),
              !.strings = MapDelete(p.strings, key),
              !.ints = MapDelete(p.ints, key)]

\* Properties.String / Int / Bool: [ok, val]
GetString(p, key) == IF key \in DOMAIN p.strings THEN [ok |-> TRUE, val |-> p.strings[key]]
                     ELSE [ok |-> FALSE, val |-> <<>>]

GetInt(p, key) == IF key \in DOMAIN p.ints THEN [ok |-> TRUE, val |-> p.ints[key]]
                  ELSE [ok |-> FALSE, val |-> 0]

GetBool(p, key) == IF key \in DOMAIN p.bools THEN [ok |-> TRUE, val |-> p.bools[key]]
                   ELSE [ok |-> FALSE, val |-> FALSE]

\* p.Merge(o) dereferences o at once (range o.ints) and p at the first entry
\* it copies: a nil o, or a nil p with a non-empty o, is a nil dereference
MergePanics(p, o) ==
    \/ o.isNil
    \/ p.isNil /\ ((DOMAIN o.ints) \cup (DOMAIN o.strings) \cup (DOMAIN o.bools)) # {}

\* Properties.Merge: the three mappings of o are copied over p's, each into
\* the mapping of the same type; p is returned.  Defined where ~MergePanics.
Merge(p, o) ==
    IF p.isNil THEN p
    ELSE [p EXCEPT !.ints = MapCopyInto(p.ints, o.ints),
                   !.strings = MapCopyInto(p.strings, o.strings),
                   !.bools = MapCopyInto(p.bools, o.bools)]

Property(name, value, type) == [Name |-> name, Value |-> value, Type |-> type]

BoolText(b) == IF b THEN <<"t", "r", "u", "e">> ELSE <<"f", "a", "l", "s", "e">>

\* Property.Value of one entry: fmt.Sprintf("%d", v), fmt.Sprintf("%v", v), v
FormatValue(type, v) == IF type = PropInt THEN Itoa(v)
                        ELSE IF type = PropBool THEN BoolText(v)
                        ELSE v

RECURSIVE MapToList(_, _, _, _)
\* for k, v := range mp { ps = append(ps, &Property{...}) }: the entries of
\* one mapping as []*Property, the keys met in the order ks, from i on
MapToList(mp, type, ks, i) ==
    IF i > Len(ks) THEN <<>>
    ELSE (IF ks[i] \in DOMAIN mp
          THEN <<Property(ks[i], FormatValue(type, mp[ks[i]]), type)>>
          ELSE <<>>) \o MapToList(mp, type, ks, i + 1)

\* Properties.toList: the ints, then the bools, then the strings, each
\* mapping in the order its loop meets the keys (ord \in ListOrders)
toList(p, ord) == MapToList(p.ints, PropInt, ord.ints, 1)
                  \o MapToList(p.bools, PropBool, ord.bools, 1)
                  \o MapToList(p.strings, PropString, ord.strings, 1)

RECURSIVE FromListLoop(_, _)
FromListLoop(ps, in) ==
    IF in = <<>> THEN ps
    ELSE LET i == Head(in)
             next == IF i.Type = "int" THEN SetInt(ps, i.Name, ParseInt(i.Value).val)
                     ELSE IF i.Type = "bool" THEN SetBool(ps, i.Name, i.Value = BoolText(TRUE))
                     ELSE SetString(ps, i.Name, i.Value)
         IN  FromListLoop(next, Tail(in))

\* the orders p.toList() can range in, one for every list it can return
BagOrders(p) == [ints : KeyOrdersOver(DOMAIN p.ints),
                 bools : KeyOrdersOver(DOMAIN p.bools),
                 strings : KeyOrdersOver(DOMAIN p.strings)]

\* newPropertiesFromList: the entries are applied in list order with the
\* evicting setters, so a name listed twice ends with its last entry
newPropertiesFromList(in) == FromListLoop(NewProperties, in)

-----------------------------------------------------------------------------
(* SpecBag: two bags built from NewProperties by the setters, and Merge    *)

NoBagOp == [op |-> "none", key |-> "", type |-> "", sval |-> <<>>, ival |-> 0,
            bval |-> FALSE, preA |-> NewProperties, ret |-> NewProperties]

BagInit == /\ pa = NewProperties
           /\ pb = NewProperties
           /\ plast = NoBagOp

ASetString == \E k \in Keys, v \in StrVals :
    /\ plast.op # "Merge"
    /\ pa' = SetString(pa, k, v)
    /\ plast' = [NoBagOp EXCEPT !.op = "Set", !.key = k, !.type = PropString,
                                !.sval = v, !.preA = pa]
    /\ UNCHANGED pb

ASetInt == \E k \in Keys, v \in IntVals :
    /\ plast.op # "Merge"
    /\ pa' = SetInt(pa, k, v)
    /\ plast' = [NoBagOp EXCEPT !.op = "Set", !.key = k, !.type = PropInt,
                                !.ival = v, !.preA = pa]
    /\ UNCHANGED pb

ASetBool == \E k \in Keys, v \in BoolVals :
    /\ plast.op # "Merge"
    /\ pa' = SetBool(pa, k, v)
    /\ plast' = [NoBagOp EXCEPT !.op = "Set", !.key = k, !.type = PropBool,
                                !.bval = v, !.preA = pa]
    /\ UNCHANGED pb

\* B is built before it is merged: the setters act on B while no operation
\* on A has been recorded
BSetString == \E k \in Keys, v \in StrVals :
    /\ plast.op = "none"
    /\ pb' = SetString(pb, k, v)
    /\ UNCHANGED <<pa, plast>>

BSetInt == \E k \in Keys, v \in IntVals :
    /\ plast.op = "none"
    /\ pb' = SetInt(pb, k, v)
    /\ UNCHANGED <<pa, plast>>

BSetBool == \E k \in Keys, v \in BoolVals :
    /\ plast.op = "none"
    /\ pb' = SetBool(pb, k, v)
    /\ UNCHANGED <<pa, plast>>

\* A.Merge(B); the run of the two bags ends with the merge
MergeAB ==
    /\ plast.op # "Merge"
    /\ ~MergePanics(pa, pb)
    /\ pa' = Merge(pa, pb)
    /\ plast' = [NoBagOp EXCEPT !.op = "Merge", !.preA = pa, !.ret = Merge(pa, pb)]
    /\ UNCHANGED pb


-----------------------------------------------------------------------------
(* The CSV grid codec: Data.encodeCSV and Data.decodeCSV                   *)

NL == "\n"

RECURSIVE Join(_, _)
\* strings.Join(parts, sep)
Join(parts, sep) == IF parts = <<>> THEN <<>>
                    ELSE IF Len(parts) = 1 THEN parts[1]
                    ELSE parts[1] \o sep \o Join(Tail(parts), sep)

RECURSIVE SplitFrom(_, _, _)
\* strings.Split(s, ","): cur is the token being read
SplitFrom(s, sepc, cur) ==
    IF s = <<>> THEN <<cur>>
    ELSE IF Head(s) = sepc THEN <<cur>> \o SplitFrom(Tail(s), sepc, <<>>)
    ELSE SplitFrom(Tail(s), sepc, Append(cur, Head(s)))

Split(s, sepc) == SplitFrom(s, sepc, <<>>)

\* a cleaner that keeps the digits alone
cleanerDigitsOnly(r) == r \in DigitSet

\* the cleaner of decodeCSV: a digit or a comma is kept, any other rune dropped
cleaner(r) == r \in DigitSet \/ r = ","

\* one row of encodeCSV: the ids in[row*width .. row*width+width-1] as decimals
csvrow(width, row, in) == [col \in 1..width |-> Itoa(in[row * width + (col - 1) + 1])]

\* encodeCSV makes a slice of height strings and, for every row, one of
\* width strings: make faults on a negative length.  It indexes
\* in[row*width+col] for every row and column: a slice shorter than
\* width*height is an index out of range.
encodeCSVPanics(width, height, in) ==
    \/ height < 0
    \/ height > 0 /\ width < 0
    \/ height > 0 /\ width > 0 /\ width * height > Len(in)

\* Data.encodeCSV(width, height, in), defined where ~encodeCSVPanics
encodeCSV(width, height, in) ==
    LET values == [row \in 1..height |-> Join(csvrow(width, row - 1, in), <<",">>)]
    IN  <<NL>> \o Join(values, <<",", NL>>) \o <<NL>>

RECURSIVE ParseAll(_)
\* the loop of decodeCSV over the tokens: [err, gids]; the first token that
\* ParseUint rejects ends the call with the error and no ids
ParseAll(str) ==
    IF str = <<>> THEN [err |-> FALSE, gids |-> <<>>]
    ELSE LET d == ParseUint(Head(str))
             rest == ParseAll(Tail(str))
         IN  IF ~d.ok \/ rest.err THEN [err |-> TRUE, gids |-> <<>>]
             ELSE [err |-> FALSE, gids |-> <<d.val>> \o rest.gids]

\* Data.decodeCSV() on RawData = raw: [err, gids]
decodeCSV(raw) ==
    LET rawDataClean == SelectSeq(raw, cleaner)
        str == Split(rawDataClean, ",")
    IN  ParseAll(str)

-----------------------------------------------------------------------------
(* Map: the in-memory TMX map.  Only the fields the operations read are    *)
(* kept: pixel sizes, orientation and names of tilesets are carried by the *)
(* code from New to Encode untouched.                                      *)

\* newTileset(name, first)
newTileset(first) == [FirstGID |-> first, Tiles |-> <<>>,
                      tileByID |-> EmptyMap, tileBySrc |-> EmptyMap]

\* New(cfg): cfg.MapWidth x cfg.MapHeight, one tileset starting at 1, no layer
New(width, height) ==
    [Width |-> width, Height |-> height,
     RootProperties |-> <<>>,
     Tilesets |-> <<newTileset(1)>>,
     ImageLayers |-> <<>>,
     TileLayers |-> <<>>,
     nextID |-> 1]

\* Map.newTilelayer(name): a layer of Width*Height empty cells, appended
newTilelayer(mp, name) ==
    [mp EXCEPT !.TileLayers = Append(@,
        [ID |-> 0, Width |-> mp.Width, Height |-> mp.Height, Name |-> name,
         RawData |-> <<>>,
         decodedTiles |-> [i \in 1..(mp.Width * mp.Height) |-> 0]])]

\* newTile numbering from nextID - 1: the first tile of a map takes id 0
newTileFromZero(mp, source) ==
    LET n == Len(mp.Tilesets)
        ts == mp.Tilesets[n]
        t == [ID |-> mp.nextID - 1, Source |-> source, Properties |-> <<>>]
        at == Len(ts.Tiles) + 1
    IN  [mp EXCEPT !.Tilesets[n] =
                       [ts EXCEPT !.Tiles = Append(@, t),
                                  !.tileByID = MapPut(@, t.ID, at),
                                  !.tileBySrc = MapPut(@, source, at)],
                   !.nextID = @ + 1]

\* Map.newTile(source): the tile takes nextID, joins the last tileset and
\* both of its indices; nextID moves on
newTile(mp, source) ==
    LET n == Len(mp.Tilesets)
        ts == mp.Tilesets[n]
        t == [ID |-> mp.nextID, Source |-> source, Properties |-> <<>>]
        at == Len(ts.Tiles) + 1
    IN  [mp EXCEPT !.Tilesets[n] =
                       [ts EXCEPT !.Tiles = Append(@, t),
                                  !.tileByID = MapPut(@, t.ID, at),
                                  !.tileBySrc = MapPut(@, source, at)],
                   !.nextID = @ + 1]

\* the search for a layer that finds none
FirstLayerNamedNever(layers, name, i) == 0

RECURSIVE FirstLayerNamed(_, _, _)
\* for _, tl := range layers { if name == tl.Name { l = tl; break } }:
\* the position of the first layer called name from i on, 0 for l == nil
FirstLayerNamed(layers, name, i) ==
    IF i > Len(layers) THEN 0
    ELSE IF layers[i].Name = name THEN i
    ELSE FirstLayerNamed(layers, name, i + 1)

\* the layer matching fmt.Sprintf("%d", z)
LayerOfZ(mp, z) == FirstLayerNamed(mp.TileLayers, Itoa(z), 1)

\* for _, ts := range m.Tilesets { t, ok = ts.tileBySrc[source]; if ok {break} }
\* with the map's one tileset: the tile's position in Tiles, 0 for t == nil
TileBySrc(mp, source) ==
    IF mp.Tilesets = <<>> THEN 0
    ELSE IF source \in DOMAIN mp.Tilesets[1].tileBySrc
         THEN mp.Tilesets[1].tileBySrc[source]
         ELSE 0

\* the end of At: the tile of id in the first tileset, as a bag
AtId(mp, id) ==
    IF id = 0 THEN NilProps
    ELSE IF mp.Tilesets = <<>> THEN NilProps
    ELSE IF id \notin DOMAIN mp.Tilesets[1].tileByID THEN NilProps
    ELSE newPropertiesFromList(mp.Tilesets[1].Tiles[mp.Tilesets[1].tileByID[id]].Properties)

\* At once the layer l (0 for nil) and index = y*m.Width + x are known
AtLayer(mp, l, index) ==
    IF l = 0 THEN NilProps
    ELSE IF index >= Len(mp.TileLayers[l].decodedTiles) \/ index < 0 THEN NilProps
    ELSE AtId(mp, mp.TileLayers[l].decodedTiles[index + 1])

\* Map.At(x, y, z): the bag of the tile in the cell, or nil
At(mp, x, y, z) == AtLayer(mp, LayerOfZ(mp, z), y * mp.Width + x)

\* the end of Set: l.decodedTiles[index] = t.ID for the tile t of source
WriteTile(mp, l, index, source) ==
    [mp EXCEPT !.TileLayers[l].decodedTiles[index + 1] =
                   mp.Tilesets[1].Tiles[TileBySrc(mp, source)].ID]

\* if source == "" { l.decodedTiles[index] = 0 }: no return follows it
ZeroIfEmpty(mp, l, index, source) ==
    IF source = "" THEN [mp EXCEPT !.TileLayers[l].decodedTiles[index + 1] = 0] ELSE mp

\* if t == nil { t = m.newTile(source) }
WithTile(mp, source) == IF TileBySrc(mp, source) = 0 THEN newTile(mp, source) ELSE mp

\* Set from the index check on, the layer l in hand
SetCell(mp, l, index, source) ==
    IF Len(mp.TileLayers[l].decodedTiles) <= index \/ index < 0
    THEN [m |-> mp, err |-> TRUE]
    ELSE [m |-> WriteTile(WithTile(ZeroIfEmpty(mp, l, index, source), source),
                          l, index, source),
          err |-> FALSE]

\* if l == nil { l = m.newTilelayer(fmt.Sprintf("%d", z)) }, then the rest
SetFound(mp, found, index, z, source) ==
    IF found = 0
    THEN SetCell(newTilelayer(mp, Itoa(z)), Len(mp.TileLayers) + 1, index, source)
    ELSE SetCell(mp, found, index, source)

\* Map.Set(x, y, z, source): [m, err].  The layer is looked up and, when it
\* is missing, created before the index is checked; the empty source writes
\* 0 and then falls through to the tile lookup and the write of t.ID.
Set(mp, x, y, z, source) ==
    SetFound(mp, LayerOfZ(mp, z), y * mp.Width + x, z, source)

\* the end of Properties: the bag of the tile at position at (0 for nil)
PropertiesAt(mp, at) ==
    IF at = 0 THEN NilProps ELSE newPropertiesFromList(mp.Tilesets[1].Tiles[at].Properties)

\* Map.Properties(source): nil for the empty source and for an unknown one
Properties(mp, source) ==
    IF source = "" THEN NilProps ELSE PropertiesAt(mp, TileBySrc(mp, source))

\* t.Properties = in.toList(): a nil in is dereferenced by toList
SetTileProperties(mp, at, in, ord) ==
    IF in.isNil THEN [m |-> mp, panic |-> TRUE]
    ELSE [m |-> [mp EXCEPT !.Tilesets[1].Tiles[at].Properties = toList(in, ord)],
          panic |-> FALSE]

\* SetProperties once the tile exists
SetPropertiesOf(mp, source, in, ord) ==
    SetTileProperties(mp, TileBySrc(mp, source), in, ord)

\* Map.SetProperties(source, in): [m, panic].  The tile is found or created
\* first; in.toList() then dereferences in, so a nil bag faults after the
\* tile was created.  ord is the order toList's loops meet the keys in.
SetProperties(mp, source, in, ord) ==
    IF source = "" THEN [m |-> mp, panic |-> FALSE]
    ELSE SetPropertiesOf(WithTile(mp, source), source, in, ord)

\* Map.SetMapProperties(in): [m, panic]; in.toList() dereferences a nil in
\* before anything is assigned
SetMapProperties(mp, in, ord) ==
    IF in.isNil THEN [m |-> mp, panic |-> TRUE]
    ELSE [m |-> [mp EXCEPT !.RootProperties = toList(in, ord)], panic |-> FALSE]

\* the pixel sizes of a tile that every map of the runs is made with
\* (DefaultConfig)
TileWidth == 32
TileHeight == 32

BackgroundName == <<"b", "a", "c", "k", "g", "r", "o", "u", "n", "d">>

\* the *Image of an image layer: nil (a layer element without an image
\* element in the file), and &Image{}
NilImage == [isNil |-> TRUE, Source |-> "", Width |-> 0, Height |-> 0]
EmptyImage == [isNil |-> FALSE, Source |-> "", Width |-> 0, Height |-> 0]

\* l.Image.Source = src and the two sizes, on the image layer at position l:
\* [m, panic]; a layer without an image is a nil dereference
SetBackgroundImage(mp, l, src) ==
    IF mp.ImageLayers[l].Image.isNil THEN [m |-> mp, panic |-> TRUE]
    ELSE [m |-> [mp EXCEPT !.ImageLayers[l].Image =
                     [isNil |-> FALSE, Source |-> src,
                      Width |-> TileWidth * mp.Width, Height |-> TileHeight * mp.Height]],
          panic |-> FALSE]

\* if l == nil { l = &ImageLayer{Name: "background", Image: &Image{}}; append }
SetBackgroundFound(mp, found, src) ==
    IF found = 0
    THEN SetBackgroundImage([mp EXCEPT !.ImageLayers =
                                Append(@, [ID |-> 0, Name |-> BackgroundName,
                                           Image |-> EmptyImage])],
                            Len(mp.ImageLayers) + 1, src)
    ELSE SetBackgroundImage(mp, found, src)

\* Map.SetBackground(src): [m, panic].  The first image layer called
\* "background" is taken, or one is appended; its image gets the source and
\* the size of the map in pixels.
SetBackground(mp, src) ==
    SetBackgroundFound(mp, FirstLayerNamed(mp.ImageLayers, BackgroundName, 1), src)

\* Map.MapProperties()
MapProperties(mp) == newPropertiesFromList(mp.RootProperties)

RECURSIVE InsertSorted(_, _)
InsertSorted(sorted, v) ==
    IF sorted = <<>> THEN <<v>>
    ELSE IF v <= Head(sorted) THEN <<v>> \o sorted
    ELSE <<Head(sorted)>> \o InsertSorted(Tail(sorted), v)

RECURSIVE SortInts(_)
\* sort.Ints
SortInts(sq) == IF sq = <<>> THEN <<>>
                ELSE InsertSorted(SortInts(Tail(sq)), Head(sq))

RECURSIVE LevelsOf(_)
\* the loop of ZLevels: the integer value of every layer name that parses
LevelsOf(layers) ==
    IF layers = <<>> THEN <<>>
    ELSE (IF ParseIntOk(Head(layers).Name) THEN <<ParseInt(Head(layers).Name).val>>
          ELSE <<>>) \o LevelsOf(Tail(layers))

\* Map.ZLevels(): sorted low to high
ZLevels(mp) == SortInts(LevelsOf(mp.TileLayers))

RECURSIVE ScanLevels(_, _, _, _)
\* for i := len(levels) - 1; i >= 0; i-- { if m.At(x, y, i) != nil {zoffset = i; break} }
\* here i counts from 0 as in the code; the result is -1 when no i matches
ScanLevels(mp, x, y, i) ==
    IF i < 0 THEN 0 - 1
    ELSE IF ~At(mp, x, y, i).isNil THEN i
    ELSE ScanLevels(mp, x, y, i - 1)

\* if zoffset < 0 { zoffset = 0 } after the scan
ScanResult(found) == IF found < 0 THEN 0 ELSE found

\* the opening block of Fits and of Add: a negative zoffset is replaced by
\* the result of the scan, and by 0 when the scan finds nothing
ResolveZOffset(mp, x, y, zoffset) ==
    IF zoffset >= 0 THEN zoffset
    ELSE ScanResult(ScanLevels(mp, x, y, Len(ZLevels(mp)) - 1))

\* the bounds test with > for >=
OffMapLoose(mp, cx, cy) == cx < 0 \/ cx > mp.Width \/ cy < 0 \/ cy > mp.Height

\* tx+x < 0 || tx+x >= m.Width || ty+y < 0 || ty+y >= m.Height
OffMap(mp, cx, cy) == cx < 0 \/ cx >= mp.Width \/ cy < 0 \/ cy >= mp.Height

RECURSIVE FitsCellsNoAt(_, _, _, _, _, _, _)
\* the inner loop of Fits without the test of the destination cell
FitsCellsNoAt(mp, x, y, z, ob, cells, index) ==
    IF index >= Len(cells) THEN TRUE
    ELSE IF cells[index + 1] = 0 THEN FitsCellsNoAt(mp, x, y, z, ob, cells, index + 1)
    ELSE IF OffMap(mp, (index % ob.Width) + x, (index \div ob.Width) + y) THEN FALSE
    ELSE FitsCellsNoAt(mp, x, y, z, ob, cells, index + 1)

RECURSIVE FitsCells(_, _, _, _, _, _, _)
\* the inner loop of Fits over the cells of one layer of o, from index on;
\* calls = index % o.Width, ty = index / o.Width
FitsCells(mp, x, y, z, ob, cells, index) ==
    IF index >= Len(cells) THEN TRUE
    ELSE IF cells[index + 1] = 0 THEN FitsCells(mp, x, y, z, ob, cells, index + 1)
    ELSE IF OffMap(mp, (index % ob.Width) + x, (index \div ob.Width) + y) THEN FALSE
    ELSE IF ~At(mp, (index % ob.Width) + x, (index \div ob.Width) + y, z).isNil THEN FALSE
    ELSE FitsCells(mp, x, y, z, ob, cells, index + 1)

RECURSIVE FitsLayers(_, _, _, _, _, _)
\* the outer loop of Fits over o.TileLayers, from layer li on; a layer whose
\* name does not parse is skipped
FitsLayers(mp, x, y, zoffset, ob, li) ==
    IF li > Len(ob.TileLayers) THEN TRUE
    ELSE IF ~ParseIntOk(ob.TileLayers[li].Name)
         THEN FitsLayers(mp, x, y, zoffset, ob, li + 1)
    ELSE IF ~FitsCells(mp, x, y, ParseInt(ob.TileLayers[li].Name).val + zoffset, ob,
                       ob.TileLayers[li].decodedTiles, 0)
         THEN FALSE
    ELSE FitsLayers(mp, x, y, zoffset, ob, li + 1)

\* Map.Fits(x, y, zoffset, o)
Fits(mp, x, y, zoffset, ob) ==
    FitsLayers(mp, x, y, ResolveZOffset(mp, x, y, zoffset), ob, 1)

\* m.SetProperties(src, mine.Merge(theirs)): Merge faults on a nil bag
MergeInto(mp, src, mine, theirs, ord) ==
    IF MergePanics(mine, theirs) THEN [m |-> mp, panic |-> TRUE]
    ELSE SetProperties(mp, src, Merge(mine, theirs), ord)

\* the sources of the tiles of a map
TileSources(mp) ==
    IF mp.Tilesets = <<>> THEN {}
    ELSE {mp.Tilesets[1].Tiles[i].Source : i \in 1..Len(mp.Tilesets[1].Tiles)}

\* the orders of the toList calls of one Add: ords[src] for the source src.
\* Add calls SetProperties once for every cell it copies, and every call
\* ranges in an order of its own.  The list one call leaves is read back by
\* the next call for the source (newPropertiesFromList, where the order
\* within a mapping decides nothing) and then replaced, so the order of the
\* last call for a source is the one that the map keeps.
\* Every bag that Add lists for src is merged of m's bag and o's bag for
\* it, so its mappings hold no key that AddKeys does not hold.
AddKeys(mp, ob, src) ==
    Merge(IF Properties(mp, src).isNil THEN NewProperties ELSE Properties(mp, src),
          IF Properties(ob, src).isNil THEN NewProperties ELSE Properties(ob, src))

AddOrders(mp, ob) ==
    LET of == [src \in TileSources(ob) |-> BagOrders(AddKeys(mp, ob, src))]
    IN  {ords \in [TileSources(ob) -> UNION {of[src] : src \in TileSources(ob)}] :
            \A src \in TileSources(ob) : ords[src] \in of[src]}

\* m.SetProperties(src, m.Properties(src).Merge(o.Properties(src))) on the
\* map as m.Set left it
AddSource(mp, ob, src, ords) ==
    MergeInto(mp, src, Properties(mp, src), Properties(ob, src), ords[src])

\* the body of Add's inner loop writing at (tx, ty) instead of (tx+x, ty+y)
AddCellNoAnchor(mp, x, y, z, ob, tid, index, ords) ==
    IF tid = 0 THEN [m |-> mp, panic |-> FALSE]
    ELSE IF tid \notin DOMAIN ob.Tilesets[1].tileByID THEN [m |-> mp, panic |-> FALSE]
    ELSE AddSource(Set(mp, index % ob.Width, index \div ob.Width, z,
                       ob.Tilesets[1].Tiles[ob.Tilesets[1].tileByID[tid]].Source).m,
                   ob, ob.Tilesets[1].Tiles[ob.Tilesets[1].tileByID[tid]].Source, ords)

\* the body of Add's inner loop for one cell of o: [m, panic].  The nil
\* tile and an id without a tile in o's tileset are skipped; the error of
\* m.Set is dropped.
AddCell(mp, x, y, z, ob, tid, index, ords) ==
    IF tid = 0 THEN [m |-> mp, panic |-> FALSE]
    ELSE IF tid \notin DOMAIN ob.Tilesets[1].tileByID THEN [m |-> mp, panic |-> FALSE]
    ELSE AddSource(Set(mp, (index % ob.Width) + x, (index \div ob.Width) + y, z,
                       ob.Tilesets[1].Tiles[ob.Tilesets[1].tileByID[tid]].Source).m,
                   ob, ob.Tilesets[1].Tiles[ob.Tilesets[1].tileByID[tid]].Source, ords)

RECURSIVE AddCells(_, _, _, _, _, _, _, _)
\* the inner loop of Add from index on, r being the outcome of the cells
\* before index: a fault ends it
AddCells(r, x, y, z, ob, cells, index, ords) ==
    IF r.panic \/ index >= Len(cells) THEN r
    ELSE AddCells(AddCell(r.m, x, y, z, ob, cells[index + 1], index, ords),
                  x, y, z, ob, cells, index + 1, ords)

RECURSIVE AddLayers(_, _, _, _, _, _, _)
\* the outer loop of Add over o.TileLayers from layer li on, r being the
\* outcome of the layers before li
AddLayers(r, x, y, zoffset, ob, li, ords) ==
    IF r.panic \/ li > Len(ob.TileLayers) THEN r
    ELSE IF ~ParseIntOk(ob.TileLayers[li].Name)
         THEN AddLayers(r, x, y, zoffset, ob, li + 1, ords)
    ELSE AddLayers(AddCells(r, x, y, ParseInt(ob.TileLayers[li].Name).val + zoffset, ob,
                            ob.TileLayers[li].decodedTiles, 0, ords),
                   x, y, zoffset, ob, li + 1, ords)

\* Map.Add(x, y, zoffset, o): [m, panic]; panic tells a nil dereference in
\* Merge or toList, m is the map as the fault left it.  ords \in AddOrders(m, o).
Add(mp, x, y, zoffset, ob, ords) ==
    AddLayers([m |-> mp, panic |-> FALSE], x, y, ResolveZOffset(mp, x, y, zoffset),
              ob, 1, ords)

-----------------------------------------------------------------------------
(* Map.Encode and Decode.  encoding/xml carries every exported field of    *)
(* Map to the document and back; the document is the record of those       *)
(* fields, and the unexported ones (nextID, tileByID, tileBySrc,           *)
(* decodedTiles) are absent from it.                                       *)

RECURSIVE IndexTiles(_, _, _, _)
\* for _, t := range ts.Tiles { ts.tileBySrc[t.Image.Source] = t; ts.tileByID[t.ID + shift] = t }
IndexTiles(ts, tiles, i, shift) ==
    IF i > Len(tiles) THEN ts
    ELSE IndexTiles([ts EXCEPT !.tileBySrc = MapPut(@, tiles[i].Source, i),
                               !.tileByID = MapPut(@, tiles[i].ID + shift, i)],
                    tiles, i + 1, shift)

\* the first loop of Encode: both indices of a tileset rebuilt from Tiles
ReindexForEncode(ts) ==
    IndexTiles([ts EXCEPT !.tileBySrc = EmptyMap, !.tileByID = EmptyMap], ts.Tiles, 1, 0)

\* the key of Encode's two sorts: what ParseInt returns for the name, its
\* error dropped (0 for a name that is no numeral)
LayerKey(l) == ParseInt(l.Name).val

\* the comparison with the order turned round
InOrderDescending(a, b) == LayerKey(a) >= LayerKey(b)

\* less(i, j) of the two sort.Slice calls is key(i) < key(j): a may stand
\* before b in the sorted slice when b is not less than a
InOrder(a, b) == LayerKey(a) <= LayerKey(b)

\* the arrangements of n places: order[i] is the place the i-th element of
\* the result is taken from
Arrangements(n) ==
    {order \in [1..n -> 1..n] : \A i, j \in 1..n : i # j => order[i] # order[j]}

\* The orders sort.Slice may leave the layers in.  sort.Slice is not a
\* stable sort: the result is ascending by key, and layers with equal keys
\* come out in an order that depends on the Go release and on the length of
\* the slice; every arrangement that is ascending is allowed for.
SortOrders(layers) ==
    {order \in Arrangements(Len(layers)) :
        \A i, j \in 1..Len(layers) :
            i < j => InOrder(layers[order[i]], layers[order[j]])}

\* sort.Slice(layers, less by LayerKey) when it settles on order
SortLayers(layers, order) == [i \in 1..Len(layers) |-> layers[order[i]]]

\* ids[i] = 0 for j == 0, j + offset otherwise
ShiftIds(cells, offset) ==
    [i \in 1..Len(cells) |-> IF cells[i] = 0 THEN 0 ELSE cells[i] + offset]

\* Encode faults where encodeCSV does
EncodePanics(mp) ==
    \E i \in 1..Len(mp.TileLayers) :
        encodeCSVPanics(mp.Width, mp.Height, mp.TileLayers[i].decodedTiles)

\* what xml.Encoder writes of one tile layer, one tile, one tileset
DocLayer(l) == [ID |-> l.ID, Width |-> l.Width, Height |-> l.Height,
                Name |-> l.Name, RawData |-> l.RawData]

DocTileset(ts) == [FirstGID |-> ts.FirstGID, Tiles |-> ts.Tiles]

\* Map.Encode(w): [m, doc].  m is the map as Encode leaves it (indices
\* rebuilt, layers sorted and numbered, RawData set), doc the document.
\* iorder and torder are the orders the two sorts settle on, of
\* SortOrders(mp.ImageLayers) and SortOrders(mp.TileLayers).
Encode(mp, iorder, torder) ==
    LET tilesets == [i \in 1..Len(mp.Tilesets) |-> ReindexForEncode(mp.Tilesets[i])]
        images0 == SortLayers(mp.ImageLayers, iorder)
        tiles0 == SortLayers(mp.TileLayers, torder)
        images == [i \in 1..Len(images0) |-> [images0[i] EXCEPT !.ID = i]]
        offset == IF Len(tilesets) > 0 THEN tilesets[1].FirstGID ELSE 0
        layers == [i \in 1..Len(tiles0) |->
                     [tiles0[i] EXCEPT
                        !.ID = i + Len(images),
                        !.RawData = encodeCSV(mp.Width, mp.Height,
                                              ShiftIds(tiles0[i].decodedTiles, offset))]]
        after == [mp EXCEPT !.Tilesets = tilesets, !.ImageLayers = images,
                            !.TileLayers = layers]
    IN  [m |-> after,
         doc |-> [Width |-> after.Width, Height |-> after.Height,
                  RootProperties |-> after.RootProperties,
                  Tilesets |-> [i \in 1..Len(tilesets) |-> DocTileset(tilesets[i])],
                  ImageLayers |-> images,
                  TileLayers |-> [i \in 1..Len(layers) |-> DocLayer(layers[i])]]]

RECURSIVE NextIDAfter(_, _, _)
\* m.nextID = 1; for each tile: if t.ID > m.nextID { m.nextID = t.ID + 1 }
NextIDAfter(tiles, i, nextID) ==
    IF i > Len(tiles) THEN nextID
    ELSE NextIDAfter(tiles, i + 1, IF tiles[i].ID > nextID THEN tiles[i].ID + 1 ELSE nextID)

\* the tileset loop of Decode: tileByID is keyed by t.ID + FirstGID
ReindexForDecode(dts) ==
    IndexTiles([FirstGID |-> dts.FirstGID, Tiles |-> dts.Tiles,
                tileByID |-> EmptyMap, tileBySrc |-> EmptyMap],
               dts.Tiles, 1, dts.FirstGID)

\* the layer loop of Decode: every layer's RawData through decodeCSV
DecodedLayer(dl) == [ID |-> dl.ID, Width |-> dl.Width, Height |-> dl.Height,
                     Name |-> dl.Name, RawData |-> dl.RawData,
                     decodedTiles |-> decodeCSV(dl.RawData).gids]

\* Decode with the tileset test len(m.Tilesets) == 0
DecodeManyTilesets(doc) ==
    IF Len(doc.Tilesets) = 0 THEN [err |-> TRUE, isNil |-> TRUE, m |-> New(0, 0)]
    ELSE IF \E i \in 1..Len(doc.TileLayers) : decodeCSV(doc.TileLayers[i].RawData).err
         THEN [err |-> TRUE, isNil |-> TRUE, m |-> New(0, 0)]
    ELSE [err |-> FALSE, isNil |-> FALSE,
          m |-> [Width |-> doc.Width, Height |-> doc.Height,
                 RootProperties |-> doc.RootProperties,
                 Tilesets |-> <<ReindexForDecode(doc.Tilesets[1])>>,
                 ImageLayers |-> doc.ImageLayers,
                 TileLayers |-> [i \in 1..Len(doc.TileLayers) |->
                                   DecodedLayer(doc.TileLayers[i])],
                 nextID |-> NextIDAfter(doc.Tilesets[1].Tiles, 1, 1)]]

\* Decode(r) of a document that xml.Decoder accepts: [err, isNil, m].  isNil
\* tells the nil *Map of the two error returns; m is the map when ~isNil.
Decode(doc) ==
    IF Len(doc.Tilesets) # 1 THEN [err |-> TRUE, isNil |-> TRUE, m |-> New(0, 0)]
    ELSE IF \E i \in 1..Len(doc.TileLayers) : decodeCSV(doc.TileLayers[i].RawData).err
         THEN [err |-> TRUE, isNil |-> TRUE, m |-> New(0, 0)]
    ELSE [err |-> FALSE, isNil |-> FALSE,
          m |-> [Width |-> doc.Width, Height |-> doc.Height,
                 RootProperties |-> doc.RootProperties,
                 Tilesets |-> <<ReindexForDecode(doc.Tilesets[1])>>,
                 ImageLayers |-> doc.ImageLayers,
                 TileLayers |-> [i \in 1..Len(doc.TileLayers) |->
                                   DecodedLayer(doc.TileLayers[i])],
                 nextID |-> NextIDAfter(doc.Tilesets[1].Tiles, 1, 1)]]

-----------------------------------------------------------------------------
(* SpecCodec: a grid is chosen, encoded, and the text decoded              *)

MaxGridW == 2
MaxGridH == 2
GridIds == {0, 7, 10, 123}

NoGout == [done |-> FALSE, err |-> FALSE, gids |-> <<>>]
NoText == [done |-> FALSE, raw |-> <<>>]

CodecInit ==
    /\ \E w \in 0..MaxGridW, h \in 0..MaxGridH :
          \E ids \in [1..(w * h) -> GridIds] : grid = [w |-> w, h |-> h, ids |-> ids]
    /\ text = NoText
    /\ gout = NoGout

\* text = encodeCSV(w, h, ids)
CodecEncode ==
    /\ ~text.done
    /\ ~encodeCSVPanics(grid.w, grid.h, grid.ids)
    /\ text' = [done |-> TRUE, raw |-> encodeCSV(grid.w, grid.h, grid.ids)]
    /\ UNCHANGED <<grid, gout>>

\* gout = decodeCSV(text)
CodecDecode ==
    /\ text.done
    /\ ~gout.done
    /\ gout' = [done |-> TRUE] @@ decodeCSV(text.raw)
    /\ UNCHANGED <<grid, text>>

-----------------------------------------------------------------------------
(* The operations on the base map m and on the object map o                *)

\* the base map is W x H, the object OW x OH
W == 2
H == 2
OW == 2
OH == 1
\* how many operations change the base map, and the object
MaxOps == 2
MaxObjOps == 2
MaxDecOps == 2

\* the sources written into the base map, and into the object
Srcs == {"", "a"}
ObjSrcs == {"b"}
Zs == {0, 1}
\* cell coordinates handed to m.Set: the map's own and one step outside
Xs == (0 - 1)..W
Ys == 0..(H - 1)
OXs == 0..(OW - 1)
OYs == 0..(OH - 1)
ZOffsets == {0 - 1, 0, 1}
AnchorXs == (0 - 1)..(W - 1)
AnchorYs == 0..(H - 1)

NoOp == [op |-> "none", x |-> 0, y |-> 0, z |-> 0, src |-> "", bag |-> NilProps,
         pre |-> New(0, 0), err |-> FALSE, panic |-> FALSE, fits |-> FALSE,
         levels |-> <<>>]

NoFile == [done |-> FALSE, edited |-> FALSE, doc |-> Encode(New(0, 0), <<>>, <<>>).doc]
NoDecode == [done |-> FALSE, err |-> FALSE, isNil |-> TRUE, m |-> New(0, 0)]
NoOps == [base |-> 0, obj |-> 0, dec |-> 0]

\* a fault (a nil dereference) ends the process: nothing runs after it.
\* Fits changes nothing, so whatever can follow it can follow the state
\* before it: a run is not continued from a recorded Fits.
Running == ~last.panic /\ last.op # "Fits"

\* m.Set(x, y, z, src)
DoSet(XS, YS, ZS, SS) == \E x \in XS, y \in YS, z \in ZS, src \in SS :
    LET r == Set(base, x, y, z, src)
    IN  /\ Running /\ nops.base < MaxOps /\ ~file.done
        /\ base' = r.m
        /\ last' = [NoOp EXCEPT !.op = "Set", !.x = x, !.y = y, !.z = z, !.src = src,
                                 !.pre = base, !.err = r.err]
        /\ nops' = [nops EXCEPT !.base = @ + 1]
        /\ UNCHANGED <<obj, file, dm>>

\* m.SetProperties(src, bag)
DoSetProperties(SS, BS) == \E src \in SS, bag \in BS : \E ord \in BagOrders(bag) :
    LET r == SetProperties(base, src, bag, ord)
    IN  /\ Running /\ nops.base < MaxOps /\ ~file.done
        /\ base' = r.m
        /\ last' = [NoOp EXCEPT !.op = "SetProperties", !.src = src, !.bag = bag,
                                 !.pre = base, !.panic = r.panic]
        /\ nops' = [nops EXCEPT !.base = @ + 1]
        /\ UNCHANGED <<obj, file, dm>>

\* m.Fits(x, y, zoffset, o)
DoFits(XS, YS, ZOS) == \E x \in XS, y \in YS, zoffset \in ZOS :
    /\ Running /\ ~file.done
    /\ last' = [NoOp EXCEPT !.op = "Fits", !.x = x, !.y = y, !.z = zoffset,
                             !.pre = base, !.fits = Fits(base, x, y, zoffset, obj)]
    /\ UNCHANGED <<base, obj, file, dm, nops>>

\* At with the search for the layer taken from Set, which creates the layer
\* it does not find
AtMapCreatingLayer(mp, x, y, z) ==
    IF LayerOfZ(mp, z) = 0 THEN newTilelayer(mp, Itoa(z)) ELSE mp

\* the map as At leaves it: At assigns to its locals l, index and id only,
\* and returns nil for a layer or a tile it does not find
AtMap(mp, x, y, z) == mp

\* m.At(x, y, z): the bag it returns is kept in last.bag
DoAt(XS, YS, ZS) == \E x \in XS, y \in YS, z \in ZS :
    /\ Running /\ ~file.done
    /\ base' = AtMap(base, x, y, z)
    /\ last' = [NoOp EXCEPT !.op = "At", !.x = x, !.y = y, !.z = z,
                             !.pre = base, !.bag = At(base, x, y, z)]
    /\ UNCHANGED <<obj, file, dm, nops>>

\* m.Properties(src): the bag it returns is kept in last.bag
DoProperties(SS) == \E src \in SS :
    /\ Running /\ ~file.done
    /\ last' = [NoOp EXCEPT !.op = "Properties", !.src = src,
                             !.pre = base, !.bag = Properties(base, src)]
    /\ UNCHANGED <<base, obj, file, dm, nops>>

\* m.ZLevels()
DoZLevels ==
    /\ Running /\ ~file.done /\ last.op # "ZLevels"
    /\ last' = [NoOp EXCEPT !.op = "ZLevels", !.pre = base, !.levels = ZLevels(base)]
    /\ UNCHANGED <<base, obj, file, dm, nops>>

\* the caller sets a key in the bag that At or Properties returned: the bag
\* holds the maps that newPropertiesFromList made for it
ChangeBag ==
    /\ Running /\ last.op \in {"At", "Properties"} /\ ~last.bag.isNil
    /\ last' = [last EXCEPT !.op = "ChangeBag", !.bag = SetInt(last.bag, "k1", 2)]
    /\ UNCHANGED <<base, obj, file, dm, nops>>

\* m.Add(x, y, zoffset, o)
DoAdd(XS, YS, ZOS) == \E x \in XS, y \in YS, zoffset \in ZOS, ords \in AddOrders(base, obj) :
    LET r == Add(base, x, y, zoffset, obj, ords)
    IN  /\ Running /\ nops.base < MaxOps /\ ~file.done
        /\ base' = r.m
        /\ last' = [NoOp EXCEPT !.op = "Add", !.x = x, !.y = y, !.z = zoffset,
                                 !.pre = base, !.panic = r.panic]
        /\ nops' = [nops EXCEPT !.base = @ + 1]
        /\ UNCHANGED <<obj, file, dm>>

\* o.Set(x, y, z, src): the object is built before the base map is touched
ObjSet(XS, YS, ZS, SS) == \E x \in XS, y \in YS, z \in ZS, src \in SS :
    /\ Running /\ nops.base = 0 /\ last.op \in {"none", "ObjSet", "ObjSetProperties"}
    /\ sres.op = "none"
    /\ nops.obj < MaxObjOps
    /\ obj' = Set(obj, x, y, z, src).m
    /\ last' = [NoOp EXCEPT !.op = "ObjSet", !.x = x, !.y = y, !.z = z, !.src = src,
                             !.pre = obj, !.err = Set(obj, x, y, z, src).err]
    /\ nops' = [nops EXCEPT !.obj = @ + 1]
    /\ UNCHANGED <<base, file, dm>>

\* o.SetProperties(src, bag)
ObjSetProperties(SS, BS) == \E src \in SS, bag \in BS : \E ord \in BagOrders(bag) :
    /\ Running /\ nops.base = 0 /\ last.op \in {"none", "ObjSet", "ObjSetProperties"}
    /\ sres.op = "none"
    /\ nops.obj < MaxObjOps
    /\ obj' = SetProperties(obj, src, bag, ord).m
    /\ last' = [NoOp EXCEPT !.op = "ObjSetProperties", !.src = src, !.bag = bag,
                             !.pre = obj, !.panic = SetProperties(obj, src, bag, ord).panic]
    /\ nops' = [nops EXCEPT !.obj = @ + 1]
    /\ UNCHANGED <<base, file, dm>>

\* m.SetMapProperties(bag)
DoSetMapProperties(BS) == \E bag \in BS : \E ord \in BagOrders(bag) :
    /\ Running /\ nops.base < MaxOps /\ ~file.done
    /\ base' = SetMapProperties(base, bag, ord).m
    /\ last' = [NoOp EXCEPT !.op = "SetMapProperties", !.bag = bag, !.pre = base,
                             !.panic = SetMapProperties(base, bag, ord).panic]
    /\ nops' = [nops EXCEPT !.base = @ + 1]
    /\ UNCHANGED <<obj, file, dm>>

\* m.SetBackground(src)
DoSetBackground(SS) == \E src \in SS :
    /\ Running /\ ~file.done
    /\ base' = SetBackground(base, src).m
    /\ last' = [NoOp EXCEPT !.op = "SetBackground", !.src = src, !.pre = base,
                             !.panic = SetBackground(base, src).panic]
    /\ UNCHANGED <<obj, file, dm, nops>>

\* m.Encode(w): the document goes to the file; Encode also leaves its marks
\* on m (indices rebuilt, layers sorted and numbered)
DoEncode ==
    /\ Running /\ ~file.done
    /\ ~EncodePanics(base)
    /\ \E iorder \in SortOrders(base.ImageLayers), torder \in SortOrders(base.TileLayers) :
          /\ base' = Encode(base, iorder, torder).m
          /\ file' = [done |-> TRUE, edited |-> FALSE,
                      doc |-> Encode(base, iorder, torder).doc]
    /\ last' = [NoOp EXCEPT !.op = "Encode", !.pre = base]
    /\ UNCHANGED <<obj, dm, nops>>

\* Decode(r) of the file written by Encode
DoDecode ==
    /\ file.done /\ ~dm.done
    /\ dm' = [done |-> TRUE, err |-> Decode(file.doc).err,
              isNil |-> Decode(file.doc).isNil, m |-> Decode(file.doc).m]
    /\ last' = [NoOp EXCEPT !.op = "Decode", !.pre = base]
    /\ UNCHANGED <<base, obj, file, nops>>

\* d.Encode(w) on the decoded map: the document replaces the file's
DecEncode ==
    /\ Running /\ dm.done /\ ~dm.isNil /\ nops.dec < MaxDecOps
    /\ ~EncodePanics(dm.m)
    /\ \E iorder \in SortOrders(dm.m.ImageLayers), torder \in SortOrders(dm.m.TileLayers) :
          /\ dm' = [dm EXCEPT !.m = Encode(dm.m, iorder, torder).m]
          /\ file' = [file EXCEPT !.doc = Encode(dm.m, iorder, torder).doc]
    /\ last' = [NoOp EXCEPT !.op = "DecEncode", !.pre = dm.m]
    /\ nops' = [nops EXCEPT !.dec = @ + 1]
    /\ UNCHANGED <<base, obj>>

\* The file is changed between Encode and Decode: its tilesets are removed
DropTilesets ==
    /\ file.done /\ ~file.edited /\ ~dm.done
    /\ file' = [file EXCEPT !.edited = TRUE, !.doc.Tilesets = <<>>]
    /\ last' = [NoOp EXCEPT !.op = "DropTilesets", !.pre = base]
    /\ UNCHANGED <<base, obj, dm, nops>>

\* ... or its tileset element is written twice
RepeatTileset ==
    /\ file.done /\ ~file.edited /\ ~dm.done
    /\ file' = [file EXCEPT !.edited = TRUE, !.doc.Tilesets = @ \o @]
    /\ last' = [NoOp EXCEPT !.op = "RepeatTileset", !.pre = base]
    /\ UNCHANGED <<base, obj, dm, nops>>

\* ... or the text of one layer's grid is replaced
EditGrid(RS) == \E li \in 1..Len(file.doc.TileLayers), raw \in RS :
    /\ file.done /\ ~file.edited /\ ~dm.done
    /\ file' = [file EXCEPT !.edited = TRUE, !.doc.TileLayers[li].RawData = raw]
    /\ last' = [NoOp EXCEPT !.op = "EditGrid", !.z = li, !.pre = base]
    /\ UNCHANGED <<base, obj, dm, nops>>

\* d.Set(x, y, z, src) on the map d that Decode returned
DecSet(XS, YS, ZS, SS) == \E x \in XS, y \in YS, z \in ZS, src \in SS :
    /\ Running /\ dm.done /\ ~dm.isNil /\ nops.dec < MaxDecOps
    /\ dm' = [dm EXCEPT !.m = Set(dm.m, x, y, z, src).m]
    /\ last' = [NoOp EXCEPT !.op = "DecSet", !.x = x, !.y = y, !.z = z, !.src = src,
                             !.pre = dm.m, !.err = Set(dm.m, x, y, z, src).err]
    /\ nops' = [nops EXCEPT !.dec = @ + 1]
    /\ UNCHANGED <<base, obj, file>>

\* d.SetProperties(src, bag)
DecSetProperties(SS, BS) == \E src \in SS, bag \in BS : \E ord \in BagOrders(bag) :
    /\ Running /\ dm.done /\ ~dm.isNil /\ nops.dec < MaxDecOps
    /\ dm' = [dm EXCEPT !.m = SetProperties(dm.m, src, bag, ord).m]
    /\ last' = [NoOp EXCEPT !.op = "DecSetProperties", !.src = src, !.bag = bag,
                             !.pre = dm.m, !.panic = SetProperties(dm.m, src, bag, ord).panic]
    /\ nops' = [nops EXCEPT !.dec = @ + 1]
    /\ UNCHANGED <<base, obj, file>>

\* d.Add(x, y, zoffset, o)
DecAdd(XS, YS, ZOS) == \E x \in XS, y \in YS, zoffset \in ZOS, ords \in AddOrders(dm.m, obj) :
    /\ Running /\ dm.done /\ ~dm.isNil /\ nops.dec < MaxDecOps
    /\ dm' = [dm EXCEPT !.m = Add(dm.m, x, y, zoffset, obj, ords).m]
    /\ last' = [NoOp EXCEPT !.op = "DecAdd", !.x = x, !.y = y, !.z = zoffset,
                             !.pre = dm.m, !.panic = Add(dm.m, x, y, zoffset, obj, ords).panic]
    /\ nops' = [nops EXCEPT !.dec = @ + 1]
    /\ UNCHANGED <<base, obj, file>>

-----------------------------------------------------------------------------
(* InfiniteMap: the SQLite store behind the same operations.  The store is *)
(* the rows of its two tables in rowid order: tiles (id the primary key)   *)
(* and properties (src the primary key).                                   *)

EmptyStore == [tiles |-> <<>>, properties |-> <<>>]

\* a tile id made of the magnitudes alone, as "%d-%d-%d" of |x|, |y|, |z|
newDBTileUnsigned(x, y, z, src) ==
    [ID |-> Utoa(IF x < 0 THEN 0 - x ELSE x) \o <<"-">>
              \o Utoa(IF y < 0 THEN 0 - y ELSE y) \o <<"-">>
              \o Utoa(IF z < 0 THEN 0 - z ELSE z),
     X |-> x, Y |-> y, Z |-> z, Src |-> src]

\* newDBTile(x, y, z, src): ID is fmt.Sprintf("%d-%d-%d", x, y, z)
newDBTile(x, y, z, src) ==
    [ID |-> Itoa(x) \o <<"-">> \o Itoa(y) \o <<"-">> \o Itoa(z),
     X |-> x, Y |-> y, Z |-> z, Src |-> src]

\* the row of tiles with the primary key id: its position, 0 for none
TileRow(rows, id) ==
    IF \E i \in 1..Len(rows) : rows[i].ID = id
    THEN CHOOSE i \in 1..Len(rows) : rows[i].ID = id
    ELSE 0

\* sqlUpdateTiles for one record: INSERT ... ON CONFLICT (id) DO UPDATE SET src
UpdateTile(rows, t) ==
    IF TileRow(rows, t.ID) = 0 THEN Append(rows, t)
    ELSE [rows EXCEPT ![TileRow(rows, t.ID)].Src = t.Src]

RECURSIVE UpdateTiles(_, _)
\* sqlUpdateTiles for a slice of records: one VALUES group per record
UpdateTiles(rows, ts) ==
    IF ts = <<>> THEN rows ELSE UpdateTiles(UpdateTile(rows, Head(ts)), Tail(ts))

\* the characters U+0020 .. U+007E in the order of their code points (U+0060
\* by its name, as RuneOf names the characters a string here cannot hold)
Ascii ==
    <<" ", "!", "\"", "#", "$", "%", "&", "'", "(", ")", "*", "+",
      ",", "-", ".", "/", "0", "1", "2", "3", "4", "5", "6", "7",
      "8", "9", ":", ";", "<", "=", ">", "?", "@", "A", "B", "C",
      "D", "E", "F", "G", "H", "I", "J", "K", "L", "M", "N", "O",
      "P", "Q", "R", "S", "T", "U", "V", "W", "X", "Y", "Z", "[",
      "\\", "]", "^", "_", "U+60", "a", "b", "c", "d", "e", "f", "g",
      "h", "i", "j", "k", "l", "m", "n", "o", "p", "q", "r", "s",
      "t", "u", "v", "w", "x", "y", "z", "{", "|", "}", "~">>

HexDigits == <<"0", "1", "2", "3", "4", "5", "6", "7", "8", "9",
               "a", "b", "c", "d", "e", "f">>

RECURSIVE HexName(_)
\* the code point n in hexadecimal, as one string
HexName(n) == IF n < 16 THEN HexDigits[n + 1]
              ELSE HexName(n \div 16) \o HexDigits[(n % 16) + 1]

\* the character with the code point n: itself where a string of the model
\* can hold it, "U+" and the code point otherwise
RuneOf(n) ==
    IF n >= 32 /\ n <= 126 THEN Ascii[n - 31]
    ELSE IF n = 9 THEN "\t"
    ELSE IF n = 10 THEN "\n"
    ELSE IF n = 12 THEN "\f"
    ELSE IF n = 13 THEN "\r"
    ELSE "U+" \o HexName(n)

\* a byte that is no part of a UTF-8 encoding, and U+FFFD, the character
\* encoding/json puts in its place
InvalidByte == "0xff"
ReplacementChar == RuneOf(65533)

\* \u and the four hexadecimal digits of n
UEscape(n) == <<"\\", "u", HexDigits[(n \div 4096) + 1], HexDigits[((n \div 256) % 16) + 1],
               HexDigits[((n \div 16) % 16) + 1], HexDigits[(n % 16) + 1]>>

\* what json.Marshal writes for one character of a string: \" and \\,
\* \n, \r and \t, \u00xx for the other control characters and for <, >
\* and & (the HTML escaping that Marshal has on), \u2028 and \u2029,
\* \ufffd for a byte that is no UTF-8, and every other character as it is.
\* (From Go 1.22 on U+0008 and U+000C are written \b and \f; both forms
\* read back the same.)
EscapeRune(c) ==
    IF c \in {"\"", "\\"} THEN <<"\\", c>>
    ELSE IF c = "\n" THEN <<"\\", "n">>
    ELSE IF c = "\r" THEN <<"\\", "r">>
    ELSE IF c = "\t" THEN <<"\\", "t">>
    ELSE IF c \in {"<", ">", "&"} THEN UEscape(CHOOSE n \in 32..126 : Ascii[n - 31] = c)
    ELSE IF \E n \in 0..31 : RuneOf(n) = c THEN UEscape(CHOOSE n \in 0..31 : RuneOf(n) = c)
    ELSE IF c = RuneOf(8232) THEN UEscape(8232)
    ELSE IF c = RuneOf(8233) THEN UEscape(8233)
    ELSE IF c = InvalidByte THEN UEscape(65533)
    ELSE <<c>>

RECURSIVE EscapeJson(_)
\* the characters json.Marshal writes between the quotes for the string v
EscapeJson(v) == IF v = <<>> THEN <<>> ELSE EscapeRune(Head(v)) \o EscapeJson(Tail(v))

\* the value of one hexadecimal digit, either case; 16 for any other character
HexVal(c) ==
    IF \E i \in 1..16 : HexDigits[i] = c THEN (CHOOSE i \in 1..16 : HexDigits[i] = c) - 1
    ELSE IF c \in {"A", "B", "C", "D", "E", "F"}
         THEN 9 + (CHOOSE i \in 1..6 : <<"A", "B", "C", "D", "E", "F">>[i] = c)
    ELSE 16

\* tx[i .. i+5] is \u and four hexadecimal digits
IsUEscape(tx, i) ==
    /\ i + 5 <= Len(tx) /\ tx[i] = "\\" /\ tx[i + 1] = "u"
    /\ \A j \in (i + 2)..(i + 5) : HexVal(tx[j]) < 16

\* the number the four digits after \u stand for
UValue(tx, i) == 4096 * HexVal(tx[i + 2]) + 256 * HexVal(tx[i + 3])
                 + 16 * HexVal(tx[i + 4]) + HexVal(tx[i + 5])

\* the character a backslash and e stand for
ShortEscape(e) ==
    IF e = "n" THEN "\n"
    ELSE IF e = "r" THEN "\r"
    ELSE IF e = "t" THEN "\t"
    ELSE IF e = "f" THEN "\f"
    ELSE IF e = "b" THEN RuneOf(8)
    ELSE e

RECURSIVE UnescapeJson(_, _)
\* what json.Unmarshal reads of the characters between the quotes of a
\* string, from position i on: \uXXXX is the character of that code point
\* (two of them a surrogate pair, one surrogate alone U+FFFD), a backslash
\* and a letter the character they stand for, a byte that is no UTF-8 U+FFFD
UnescapeJson(tx, i) ==
    IF i > Len(tx) THEN <<>>
    ELSE IF IsUEscape(tx, i)
    THEN IF UValue(tx, i) >= 55296 /\ UValue(tx, i) < 56320 /\ IsUEscape(tx, i + 6)
            /\ UValue(tx, i + 6) >= 56320 /\ UValue(tx, i + 6) < 57344
         THEN <<RuneOf(65536 + 1024 * (UValue(tx, i) - 55296) + (UValue(tx, i + 6) - 56320))>>
              \o UnescapeJson(tx, i + 12)
         ELSE IF UValue(tx, i) >= 55296 /\ UValue(tx, i) < 57344
         THEN <<ReplacementChar>> \o UnescapeJson(tx, i + 6)
         ELSE <<RuneOf(UValue(tx, i))>> \o UnescapeJson(tx, i + 6)
    ELSE IF tx[i] = "\\" /\ i < Len(tx)
    THEN <<ShortEscape(tx[i + 1])>> \o UnescapeJson(tx, i + 2)
    ELSE IF tx[i] = InvalidByte THEN <<ReplacementChar>> \o UnescapeJson(tx, i + 1)
    ELSE <<tx[i]>> \o UnescapeJson(tx, i + 1)

\* one value of a JSON object: a number, true / false, or a string between
\* quotes with its characters escaped
JsonValue(type, v) ==
    IF type = PropString THEN <<"\"">> \o EscapeJson(v) \o <<"\"">> ELSE FormatValue(type, v)

RECURSIVE MarshalMap(_, _, _)
\* json.Marshal of one Go map: its entries with the keys in sorted order
MarshalMap(mp, type, i) ==
    IF i > Len(KeySeq) THEN <<>>
    ELSE (IF KeySeq[i] \in DOMAIN mp
          THEN <<[Name |-> KeySeq[i], Value |-> JsonValue(type, mp[KeySeq[i]])]>>
          ELSE <<>>) \o MarshalMap(mp, type, i + 1)

\* the value a JSON text stands for: the number, the boolean, or the
\* string that the token between the quotes spells, escapes resolved
ParseJsonValue(type, tx) ==
    IF type = PropInt THEN ParseInt(tx).val
    ELSE IF type = PropBool THEN tx = BoolText(TRUE)
    ELSE UnescapeJson(SubSeq(tx, 2, Len(tx) - 1), 1)

\* json.Unmarshal of one JSON object into a Go map
UnmarshalMap(entries, type) ==
    [k \in {entries[i].Name : i \in 1..Len(entries)} |->
        ParseJsonValue(type, entries[CHOOSE i \in 1..Len(entries) :
                                         entries[i].Name = k].Value)]

\* newDBProp dereferences props
newDBPropPanics(props) == props.isNil

\* newDBProp(src, props): Data is the JSON of {I: ints, S: strings, B: bools}
newDBProp(src, props) ==
    [Src |-> src,
     Data |-> [I |-> MarshalMap(props.ints, PropInt, 1),
               S |-> MarshalMap(props.strings, PropString, 1),
               B |-> MarshalMap(props.bools, PropBool, 1)]]

\* the &Properties{ints: dblock.I, strings: dblock.S, bools: dblock.B} that
\* properties() builds of one row
PropsOfData(data) ==
    [isNil |-> FALSE,
     ints |-> UnmarshalMap(data.I, PropInt),
     strings |-> UnmarshalMap(data.S, PropString),
     bools |-> UnmarshalMap(data.B, PropBool)]

\* the row of properties with the primary key src: its position, 0 for none
PropRow(rows, src) ==
    IF \E i \in 1..Len(rows) : rows[i].Src = src
    THEN CHOOSE i \in 1..Len(rows) : rows[i].Src = src
    ELSE 0

\* sqlUpdateProps for one record: INSERT ... ON CONFLICT (src) DO UPDATE SET data
UpdateProp(rows, r) ==
    IF PropRow(rows, r.Src) = 0 THEN Append(rows, r)
    ELSE [rows EXCEPT ![PropRow(rows, r.Src)].Data = r.Data]

\* InfiniteMap.properties(do, in...): [err, result].  The query is
\* "SELECT src,data FROM properties WHERE " + the src=:prop_i joined by OR
\* + " LIMIT len(in)": with no source the WHERE has no condition and SQLite
\* refuses the statement.  result maps each source that has a row to its bag.
properties(st, in) ==
    IF in = <<>> THEN [err |-> TRUE, result |-> EmptyMap]
    ELSE [err |-> FALSE,
          result |-> [src \in {in[i] : i \in 1..Len(in)}
                                \cap {st.properties[j].Src : j \in 1..Len(st.properties)}
                        |-> PropsOfData(st.properties[PropRow(st.properties, src)].Data)]]

\* InfiniteMap.Set(x, y, z, src): the store after the upsert
InfiniteMapSet(st, x, y, z, src) ==
    [st EXCEPT !.tiles = UpdateTile(@, newDBTile(x, y, z, src))]

\* the rows of "SELECT x,y,z,src FROM tiles WHERE x=:x0 AND y=:y0 AND z=:z0"
RowsAt(st, x, y, z) ==
    {i \in 1..Len(st.tiles) : st.tiles[i].X = x /\ st.tiles[i].Y = y /\ st.tiles[i].Z = z}

\* InfiniteMap.At(x, y, z): the Src of the row the query returns (LIMIT 1),
\* "" when it returns none
InfiniteMapAt(st, x, y, z) ==
    IF RowsAt(st, x, y, z) = {} THEN ""
    ELSE st.tiles[CHOOSE i \in RowsAt(st, x, y, z) :
                     \A j \in RowsAt(st, x, y, z) : i <= j].Src

\* InfiniteMap.Properties(src): nil for "", a new bag when no row is stored
InfiniteMapProperties(st, src) ==
    IF src = "" THEN NilProps
    ELSE IF src \in DOMAIN properties(st, <<src>>).result
         THEN properties(st, <<src>>).result[src]
    ELSE NewProperties

\* InfiniteMap.SetProperties(src, props): [st, panic]
InfiniteMapSetProperties(st, src, props) ==
    IF newDBPropPanics(props) THEN [st |-> st, panic |-> TRUE]
    ELSE [st |-> [st EXCEPT !.properties = UpdateProp(@, newDBProp(src, props))],
          panic |-> FALSE]

\* highest := the last of o.ZLevels(), 0 when there is none
Highest(ob) == IF ZLevels(ob) = <<>> THEN 0 ELSE ZLevels(ob)[Len(ZLevels(ob))]

\* Fits with z1 = z + highest
InfiniteMapFitsBelow(st, x, y, z, ob) ==
    {i \in 1..Len(st.tiles) :
        /\ st.tiles[i].X >= x /\ st.tiles[i].X < x + ob.Width
        /\ st.tiles[i].Y >= y /\ st.tiles[i].Y < y + ob.Height
        /\ st.tiles[i].Z >= z /\ st.tiles[i].Z < z + Highest(ob)} = {}

\* InfiniteMap.Fits(x, y, z, o): count(*) of the rows in the box is 0
InfiniteMapFits(st, x, y, z, ob) ==
    {i \in 1..Len(st.tiles) :
        /\ st.tiles[i].X >= x /\ st.tiles[i].X < x + ob.Width
        /\ st.tiles[i].Y >= y /\ st.tiles[i].Y < y + ob.Height
        /\ st.tiles[i].Z >= z /\ st.tiles[i].Z < z + Highest(ob) + 1} = {}

\* the record Add's inner loop appends for one cell of o, none for the nil
\* tile and for an id without a tile
CellTiles(x, y, z, ob, tid, index) ==
    IF tid = 0 \/ tid \notin DOMAIN ob.Tilesets[1].tileByID THEN <<>>
    ELSE <<newDBTile((index % ob.Width) + x, (index \div ob.Width) + y, z,
                     ob.Tilesets[1].Tiles[ob.Tilesets[1].tileByID[tid]].Source)>>

RECURSIVE LayerTiles(_, _, _, _, _, _)
\* the inner loop of InfiniteMap.Add over the cells of one layer
LayerTiles(x, y, z, ob, cells, index) ==
    IF index >= Len(cells) THEN <<>>
    ELSE CellTiles(x, y, z, ob, cells[index + 1], index)
           \o LayerTiles(x, y, z, ob, cells, index + 1)

RECURSIVE CollectTiles(_, _, _, _, _)
\* updateTiles: the outer loop of InfiniteMap.Add from layer li on
CollectTiles(x, y, zoffset, ob, li) ==
    IF li > Len(ob.TileLayers) THEN <<>>
    ELSE IF ~ParseIntOk(ob.TileLayers[li].Name)
         THEN CollectTiles(x, y, zoffset, ob, li + 1)
    ELSE LayerTiles(x, y, ParseInt(ob.TileLayers[li].Name).val + zoffset, ob,
                    ob.TileLayers[li].decodedTiles, 0)
           \o CollectTiles(x, y, zoffset, ob, li + 1)

RECURSIVE SrcsOf(_)
\* srcsToUpdate: the source of every collected record
SrcsOf(ts) == IF ts = <<>> THEN <<>> ELSE <<Head(ts).Src>> \o SrcsOf(Tail(ts))

\* saved, _ := existingProps[src]; if saved == nil { saved = NewProperties() }
SavedProps(existing, src) ==
    IF src \in DOMAIN existing THEN existing[src] ELSE NewProperties

\* the orders a loop over a Go map with the keys S can meet them in: the
\* sequences that hold every key once
OrdersOf(S) == {sq \in [1..Cardinality(S) -> S] :
                   \A i \in 1..Cardinality(S), j \in 1..Cardinality(S) :
                       i # j => sq[i] # sq[j]}

RECURSIVE MergeProps(_, _, _, _)
\* for src, now := range propsCurrent { propStructs = append(propStructs,
\* newDBProp(src, saved.Merge(now))) } and sqlUpdateProps of propStructs: the
\* merged bags written back one row after the other, order being the order
\* the loop meets the sources in
MergeProps(rows, existing, ob, order) ==
    IF order = <<>> THEN rows
    ELSE MergeProps(UpdateProp(rows, newDBProp(Head(order),
                        Merge(SavedProps(existing, Head(order)), Properties(ob, Head(order))))),
                    existing, ob, Tail(order))

\* the sources of the records
SrcSet(ts) == {ts[i].Src : i \in 1..Len(ts)}

\* saved.Merge(now) faults for a source of o without a bag (the empty one)
AddPanics(ob, ts) == \E src \in SrcSet(ts) : MergePanics(NewProperties, Properties(ob, src))

\* the keys of propsCurrent: the sources Add's second loop ranges over
AddSources(x, y, zoffset, ob) == SrcSet(CollectTiles(x, y, zoffset, ob, 1))

\* InfiniteMap.Add up to "_, err := i.db.NamedExec(sqlUpdateTiles, updateTiles);
\* if err != nil { return err }": [st, err].  The statement runs outside any
\* transaction and is committed when it returns.  NamedExec refuses an empty
\* slice, so an object that places nothing returns an error; ok = FALSE is
\* an error of the storage.
InfiniteMapAddTiles(st, x, y, zoffset, ob, ok) ==
    IF CollectTiles(x, y, zoffset, ob, 1) = <<>> \/ ~ok
    THEN [st |-> st, err |-> TRUE]
    ELSE [st |-> [st EXCEPT !.tiles = UpdateTiles(@, CollectTiles(x, y, zoffset, ob, 1))],
          err |-> FALSE]

\* InfiniteMap.Add from Beginx to Commit, on the store as it is after the
\* first statement: [st, err, panic].  ok = FALSE is an error of Beginx, of
\* the query, of txn.NamedExec or of Commit: Add returns it and the store
\* keeps the tiles without the bags.  The same holds after a fault in Merge,
\* which leaves the transaction uncommitted.  order is the order the loop
\* over propsCurrent meets the sources in.
InfiniteMapAddProps(st, x, y, zoffset, ob, order, ok) ==
    IF ~ok THEN [st |-> st, err |-> TRUE, panic |-> FALSE]
    ELSE IF AddPanics(ob, CollectTiles(x, y, zoffset, ob, 1))
    THEN [st |-> st, err |-> FALSE, panic |-> TRUE]
    ELSE [st |-> [st EXCEPT !.properties =
                      MergeProps(@, properties(st, SrcsOf(CollectTiles(x, y, zoffset, ob, 1))).result,
                                 ob, order)],
          err |-> FALSE, panic |-> FALSE]

RECURSIVE ReplayTiles(_, _, _, _, _, _, _)
\* for rows.Next() { tmap.Set(tile.X, tile.Y, tile.Z, tile.Src) } over the
\* rows with x0 <= x < x1 and y0 <= y < y1, from row i on
ReplayTiles(mp, rows, i, x0, y0, x1, y1) ==
    IF i > Len(rows) THEN mp
    ELSE IF rows[i].X >= x0 /\ rows[i].X < x1 /\ rows[i].Y >= y0 /\ rows[i].Y < y1
         THEN ReplayTiles(Set(mp, rows[i].X, rows[i].Y, rows[i].Z, rows[i].Src).m,
                          rows, i + 1, x0, y0, x1, y1)
    ELSE ReplayTiles(mp, rows, i + 1, x0, y0, x1, y1)

RECURSIVE RegionSrcs(_, _, _, _, _, _)
\* srcs: the Src of every row of the rectangle
RegionSrcs(rows, i, x0, y0, x1, y1) ==
    IF i > Len(rows) THEN <<>>
    ELSE (IF rows[i].X >= x0 /\ rows[i].X < x1 /\ rows[i].Y >= y0 /\ rows[i].Y < y1
          THEN <<rows[i].Src>> ELSE <<>>) \o RegionSrcs(rows, i + 1, x0, y0, x1, y1)

RECURSIVE ReplayProps(_, _, _, _)
\* for src, props := range srcProps { tmap.SetProperties(src, props) }: order
\* is the order the loop meets the sources in (a source without a tile on
\* the map gets one, with the next id), ords[src] the order toList ranges in
ReplayProps(mp, srcProps, order, ords) ==
    IF order = <<>> THEN mp
    ELSE ReplayProps(SetProperties(mp, Head(order), srcProps[Head(order)],
                                   ords[Head(order)]).m,
                     srcProps, Tail(order), ords)

\* the keys of srcProps: the sources of the rows that Map's first statement
\* read of rd, as far as they have a row of properties in st, the store that
\* its second statement reads
MapSources(rd, st, x0, y0, x1, y1) ==
    DOMAIN properties(st, RegionSrcs(rd.tiles, 1, x0, y0, x1, y1)).result

\* the orders of the toList calls of one Map: ords[src] for the bag of src
MapOrders(rd, st, x0, y0, x1, y1) ==
    LET of == [src \in MapSources(rd, st, x0, y0, x1, y1) |->
                  BagOrders(properties(st, <<src>>).result[src])]
    IN  {ords \in [DOMAIN of -> UNION {of[src] : src \in DOMAIN of}] :
            \A src \in DOMAIN of : ords[src] \in of[src]}

\* Map with a map that takes in the column x1 and the row y1
InfiniteMapMapInclusive(rd, st, x0, y0, x1, y1, order, ords) ==
    IF x1 <= x0 \/ y1 <= y0 THEN [err |-> TRUE, isNil |-> TRUE, m |-> New(0, 0)]
    ELSE IF properties(st, RegionSrcs(rd.tiles, 1, x0, y0, x1, y1)).err
    THEN [err |-> TRUE, isNil |-> TRUE, m |-> New(0, 0)]
    ELSE [err |-> FALSE, isNil |-> FALSE,
          m |-> ReplayProps(ReplayTiles(New(x1 - x0 + 1, y1 - y0 + 1), rd.tiles, 1, x0, y0, x1, y1),
                            properties(st, RegionSrcs(rd.tiles, 1, x0, y0, x1, y1)).result,
                            order, ords)]

\* InfiniteMap.Map(tilewidth, tileheight, x0, y0, x1, y1): [err, isNil, m].
\* Map runs two statements on i.db, outside any transaction: the SELECT of
\* the tiles of the rectangle, which reads the store rd, and the SELECT of
\* properties() for their sources, which reads the store st, rd as another
\* caller's writes have left it meanwhile.  order \in OrdersOf(MapSources(...))
\* and ords \in MapOrders(...) are the orders the loop over srcProps and the
\* toList calls range in.
InfiniteMapMap(rd, st, x0, y0, x1, y1, order, ords) ==
    IF x1 <= x0 \/ y1 <= y0 THEN [err |-> TRUE, isNil |-> TRUE, m |-> New(0, 0)]
    ELSE IF properties(st, RegionSrcs(rd.tiles, 1, x0, y0, x1, y1)).err
    THEN [err |-> TRUE, isNil |-> TRUE, m |-> New(0, 0)]
    ELSE [err |-> FALSE, isNil |-> FALSE,
          m |-> ReplayProps(ReplayTiles(New(x1 - x0, y1 - y0), rd.tiles, 1, x0, y0, x1, y1),
                            properties(st, RegionSrcs(rd.tiles, 1, x0, y0, x1, y1)).result,
                            order, ords)]

-----------------------------------------------------------------------------
(* The operations on the InfiniteMap                                       *)

\* how many operations change the store
MaxStOps == 2

\* the coordinates handed to the store: negative ones and two-digit ones
StXs == {0 - 1, 1, 11}
StYs == {0 - 1, 1, 11}
StZs == {0 - 1, 0}
StCoords == StXs \X StYs \X StZs

\* no operation yet; n counts the operations and written keeps, for every
\* coordinate, the source of the latest Set on it ("" for none)
\* what Map has returned before it is called
NoMapOut == [err |-> FALSE, isNil |-> TRUE, m |-> New(0, 0)]

NoStoreOp == [op |-> "none", x |-> 0, y |-> 0, z |-> 0, src |-> "", bag |-> NilProps,
              pre |-> EmptyStore, err |-> FALSE, panic |-> FALSE, fits |-> FALSE,
              n |-> 0, written |-> [c \in StCoords |-> ""],
              x1 |-> 0, y1 |-> 0, out |-> NoMapOut]

\* the callers of Add that run side by side
Callers == {1, 2}

\* a caller that has not called Add
\* tiled: its tile batch is written; hasRead: existing holds what it read;
\* at: the step at which it ended without returning nil
\* order: the order its loop over propsCurrent met the sources in
\* sawDone: the callers whose Add had committed when it read (kept for the
\* claims; the code has no such field)
IdleTx == [pc |-> "idle", o |-> New(0, 0), x |-> 0, y |-> 0, tiled |-> FALSE,
           hasRead |-> FALSE, existing |-> EmptyMap, order |-> <<>>,
           sawDone |-> {}, err |-> "", at |-> ""]

NoTx == [p \in Callers |-> IdleTx]

StoreIdle == store = EmptyStore /\ sres = NoStoreOp /\ calls = NoTx

\* an Add that has run its first statement and not yet returned
AddPending == sres.op = "AddTiles"

\* a Map that has run its first statement and not yet returned
MapPending == sres.op = "MapTiles"

\* nothing is called while an Add is on its way: the callers of one
\* InfiniteMap that run side by side are those of SpecTx
StRunning == ~sres.panic /\ ~last.panic /\ sres.op # "Fits" /\ ~AddPending /\ ~MapPending

\* a caller may write: no call is on its way, or a Map is between its two
\* statements, which hold no lock on the database between them
StMayWrite == ~sres.panic /\ ~last.panic /\ sres.op # "Fits" /\ ~AddPending

\* i.Set(x, y, z, src); while a Map is on its way this is the Set of
\* another caller, and sres keeps the record of the Map
StSet(XS, YS, ZS, SS) == \E x \in XS, y \in YS, z \in ZS, src \in SS :
    /\ StMayWrite /\ UNCHANGED calls /\ sres.n < MaxStOps
    /\ store' = InfiniteMapSet(store, x, y, z, src)
    /\ sres' = [(IF MapPending THEN sres
                 ELSE [NoStoreOp EXCEPT !.op = "Set", !.x = x, !.y = y, !.z = z, !.src = src,
                                        !.pre = store])
                   EXCEPT !.n = sres.n + 1,
                          !.written = IF <<x, y, z>> \in StCoords
                                      THEN [sres.written EXCEPT ![<<x, y, z>>] = src]
                                      ELSE sres.written]

\* i.SetProperties(src, bag); while a Map is on its way, that of another
\* caller
StSetProperties(SS, BS) == \E src \in SS, bag \in BS :
    /\ StMayWrite /\ UNCHANGED calls /\ sres.n < MaxStOps
    /\ store' = InfiniteMapSetProperties(store, src, bag).st
    /\ sres' = [(IF MapPending THEN sres
                 ELSE [NoStoreOp EXCEPT !.op = "SetProperties", !.src = src, !.bag = bag,
                                        !.pre = store])
                   EXCEPT !.n = sres.n + 1,
                          !.written = sres.written,
                          !.panic = InfiniteMapSetProperties(store, src, bag).panic]

\* i.Fits(x, y, z, o)
StFits(XS, YS, ZS) == \E x \in XS, y \in YS, z \in ZS :
    /\ StRunning /\ UNCHANGED calls
    /\ sres' = [NoStoreOp EXCEPT !.op = "Fits", !.x = x, !.y = y, !.z = z,
                                 !.pre = store, !.n = sres.n,
                                 !.written = sres.written,
                                 !.fits = InfiniteMapFits(store, x, y, z, obj)]
    /\ UNCHANGED store

\* i.Map(tw, th, x0, y0, x0 + dx, y0 + dy) up to its first statement, the
\* SELECT of the tiles: an empty or inverted rectangle returns before it (op
\* "Map"), any other call goes on (op "MapTiles").  The rectangle is kept in
\* x, y, x1, y1, and pre is the store that the statement read.
StMapTiles(X0S, Y0S, DXS, DYS) == \E x0 \in X0S, y0 \in Y0S, dx \in DXS, dy \in DYS :
    /\ StRunning /\ UNCHANGED calls
    /\ sres' = [NoStoreOp EXCEPT !.op = IF dx <= 0 \/ dy <= 0 THEN "Map" ELSE "MapTiles",
                                 !.x = x0, !.y = y0,
                                 !.x1 = x0 + dx, !.y1 = y0 + dy,
                                 !.pre = store, !.n = sres.n,
                                 !.written = sres.written,
                                 !.out = IF dx <= 0 \/ dy <= 0
                                         THEN InfiniteMapMap(store, store, x0, y0, x0 + dx, y0 + dy,
                                                             <<>>, <<>>)
                                         ELSE NoMapOut]
    /\ UNCHANGED store

\* the rest of the Map on its way: the SELECT of the properties, which reads
\* the store as it is now, the loop over srcProps, and the return
StMapProps ==
    \E order \in OrdersOf(MapSources(sres.pre, store, sres.x, sres.y, sres.x1, sres.y1)),
       ords \in MapOrders(sres.pre, store, sres.x, sres.y, sres.x1, sres.y1) :
    /\ MapPending /\ ~last.panic /\ ~sres.panic /\ UNCHANGED calls
    /\ sres' = [sres EXCEPT !.op = "Map",
                            !.out = InfiniteMapMap(sres.pre, store, sres.x, sres.y,
                                                   sres.x1, sres.y1, order, ords)]
    /\ UNCHANGED store

\* i.Add(x, y, zoffset, o) up to its first statement, which writes the tiles
\* and commits them: the call returns here with an error (op "Add") or goes
\* on (op "AddTiles").  pre is the store before the call.
StAddTiles(XS, YS, ZOS, OKS) == \E x \in XS, y \in YS, zoffset \in ZOS, ok \in OKS :
    /\ StRunning /\ UNCHANGED calls /\ sres.n < MaxStOps
    /\ store' = InfiniteMapAddTiles(store, x, y, zoffset, obj, ok).st
    /\ sres' = [NoStoreOp EXCEPT !.op = IF InfiniteMapAddTiles(store, x, y, zoffset, obj, ok).err
                                        THEN "Add" ELSE "AddTiles",
                                 !.x = x, !.y = y, !.z = zoffset,
                                 !.pre = store, !.n = sres.n + 1,
                                 !.written = sres.written,
                                 !.err = InfiniteMapAddTiles(store, x, y, zoffset, obj, ok).err]

\* the rest of the Add on its way: the transaction that merges and writes
\* the bags, and the return
StAddProps(OKS) == \E ok \in OKS, order \in OrdersOf(AddSources(sres.x, sres.y, sres.z, obj)) :
    /\ AddPending /\ ~last.panic /\ UNCHANGED calls
    /\ store' = InfiniteMapAddProps(store, sres.x, sres.y, sres.z, obj, order, ok).st
    /\ sres' = [sres EXCEPT
                   !.op = "Add",
                   !.err = InfiniteMapAddProps(store, sres.x, sres.y, sres.z, obj, order, ok).err,
                   !.panic = InfiniteMapAddProps(store, sres.x, sres.y, sres.z, obj, order, ok).panic]

\* the same Set on the Map and on the InfiniteMap
BothSet(XS, YS, ZS, SS) == \E x \in XS, y \in YS, z \in ZS, src \in SS :
    /\ StRunning /\ UNCHANGED calls /\ nops.base < MaxOps
    /\ base' = Set(base, x, y, z, src).m
    /\ last' = [NoOp EXCEPT !.op = "Set", !.x = x, !.y = y, !.z = z, !.src = src,
                             !.pre = base, !.err = Set(base, x, y, z, src).err]
    /\ store' = InfiniteMapSet(store, x, y, z, src)
    /\ sres' = [NoStoreOp EXCEPT !.op = "Set", !.x = x, !.y = y, !.z = z, !.src = src,
                                 !.pre = store, !.n = sres.n + 1]
    /\ nops' = [nops EXCEPT !.base = @ + 1]
    /\ UNCHANGED <<obj, file, dm>>

\* the same SetProperties on both
BothSetProperties(SS, BS) == \E src \in SS, bag \in BS : \E ord \in BagOrders(bag) :
    /\ StRunning /\ UNCHANGED calls /\ nops.base < MaxOps
    /\ base' = SetProperties(base, src, bag, ord).m
    /\ last' = [NoOp EXCEPT !.op = "SetProperties", !.src = src, !.bag = bag,
                             !.pre = base, !.panic = SetProperties(base, src, bag, ord).panic]
    /\ store' = InfiniteMapSetProperties(store, src, bag).st
    /\ sres' = [NoStoreOp EXCEPT !.op = "SetProperties", !.src = src, !.bag = bag,
                                 !.pre = store, !.n = sres.n + 1,
                                 !.panic = InfiniteMapSetProperties(store, src, bag).panic]
    /\ nops' = [nops EXCEPT !.base = @ + 1]
    /\ UNCHANGED <<obj, file, dm>>

\* the same Add on both, m.Add first: when it faults the process ends and
\* i.Add is never called; otherwise i.Add runs up to its first statement
\* (StAddProps is the rest of it)
BothAdd(XS, YS, ZOS, OKS) ==
    \E x \in XS, y \in YS, zoffset \in ZOS, ords \in AddOrders(base, obj), ok \in OKS :
    /\ StRunning /\ UNCHANGED calls /\ nops.base < MaxOps
    /\ base' = Add(base, x, y, zoffset, obj, ords).m
    /\ last' = [NoOp EXCEPT !.op = "Add", !.x = x, !.y = y, !.z = zoffset,
                             !.pre = base, !.panic = Add(base, x, y, zoffset, obj, ords).panic]
    /\ store' = IF Add(base, x, y, zoffset, obj, ords).panic THEN store
                ELSE InfiniteMapAddTiles(store, x, y, zoffset, obj, ok).st
    /\ sres' = IF Add(base, x, y, zoffset, obj, ords).panic THEN sres
               ELSE [NoStoreOp EXCEPT
                        !.op = IF InfiniteMapAddTiles(store, x, y, zoffset, obj, ok).err
                               THEN "Add" ELSE "AddTiles",
                        !.x = x, !.y = y, !.z = zoffset,
                        !.pre = store, !.n = sres.n + 1,
                        !.err = InfiniteMapAddTiles(store, x, y, zoffset, obj, ok).err]
    /\ nops' = [nops EXCEPT !.base = @ + 1]
    /\ UNCHANGED <<obj, file, dm>>

-----------------------------------------------------------------------------
(* InfiniteMap.Add step by step, for callers that run side by side.  Each  *)
(* caller has its own connection to the one database file.  SQLite, in the *)
(* rollback-journal mode the code opens it in, lets a transaction read     *)
(* under a SHARED lock that it keeps until it ends, write under the one    *)
(* RESERVED lock, and commit only when no other connection holds SHARED;   *)
(* a statement outside a transaction commits at once and needs the same.   *)
(* A statement that has RESERVED and finds a reader takes PENDING and      *)
(* waits for the reader to end, as long as the busy timeout of the driver  *)
(* lasts (5 seconds); a reader that wants RESERVED while another           *)
(* connection has it is refused at once.                                   *)

\* the transaction of t has read, or its INSERT waits to commit: it holds
\* SHARED until it ends
HoldsShared(t) == t.pc \in {"read", "exec", "writing"}

\* the transaction of t has written, or its INSERT waits to commit: it
\* holds RESERVED
HoldsReserved(t) == t.pc \in {"exec", "writing"}

\* the INSERT of t waits for the readers to end: it holds PENDING, under
\* which no connection gets a new SHARED
HoldsPending(t) == t.pc = "writing"

\* i.db.NamedExec outside a transaction: the write commits at once, which no
\* other connection's lock may stand against
CanWriteNow(txs, p) == \A q \in Callers \ {p} : ~HoldsShared(txs[q])

\* txn.NamedExec: RESERVED is free
CanReserve(txs, p) == \A q \in Callers \ {p} : ~HoldsReserved(txs[q])

\* the query of a transaction: no other connection holds PENDING
CanShare(txs, p) == \A q \in Callers \ {p} : ~HoldsPending(txs[q])

\* a commit that waits for nobody
CanCommitAlways(txs, p) == TRUE

\* txn.Commit: no other connection holds SHARED
CanCommit(txs, p) == \A q \in Callers \ {p} : ~HoldsShared(txs[q])

\* updateTiles of a caller
TxTilesOf(t) == CollectTiles(t.x, t.y, 0, t.o, 1)

\* the errors a step can return: a fault of the storage ("disk I/O error")
\* at any time and, when the lock it needs is not free, "database is locked"
Refusal(free) == IF free THEN {"io"} ELSE {"io", "locked"}

\* what a step leaves: the database file and the callers
TxOutcome(st, cs) == [store |-> st, calls |-> cs]

\* a step of the callers: the file and the callers become one of outcomes
TxStep(outcomes) ==
    /\ \E n \in outcomes : store' = n.store /\ calls' = n.calls
    /\ UNCHANGED sres

\* _, err := i.db.NamedExec(sqlUpdateTiles, updateTiles); if err != nil { return err }
\* NamedExec refuses an empty slice.  The INSERT needs RESERVED: while another
\* connection has it the statement waits without a lock of its own, which
\* is to stay at "start", and returns "database is locked" when the timeout
\* ends first.  With RESERVED the statement is written and committed at
\* once when no other connection reads; when one does it takes PENDING and
\* waits for it ("writing").  The outcomes of the statement of caller p in
\* the file st with the callers cs:
TxTilesTo(st, cs, p) ==
    IF cs[p].pc # "start" THEN {}
    ELSE (IF TxTilesOf(cs[p]) # <<>> /\ CanWriteNow(cs, p)
          THEN {TxOutcome([st EXCEPT !.tiles = UpdateTiles(@, TxTilesOf(cs[p]))],
                          [cs EXCEPT ![p].pc = "tiles", ![p].tiled = TRUE,
                                     ![p].at = "", ![p].err = ""])}
          ELSE {})
         \cup
         (IF TxTilesOf(cs[p]) # <<>> /\ CanReserve(cs, p) /\ ~CanWriteNow(cs, p)
          THEN {TxOutcome(st, [cs EXCEPT ![p].pc = "writing", ![p].tiled = FALSE,
                                         ![p].at = "", ![p].err = ""])}
          ELSE {})
         \cup
         {TxOutcome(st, [cs EXCEPT ![p].pc = "failed", ![p].tiled = FALSE,
                                   ![p].at = "start",
                                   ![p].err = IF TxTilesOf(cs[p]) = <<>> THEN "empty" ELSE e]) :
             e \in Refusal(CanReserve(cs, p) /\ CanWriteNow(cs, p))}

TxTiles(p) == TxStep(TxTilesTo(store, calls, p))

\* the INSERT that waits under PENDING: it is written and committed when the
\* last reader has ended, and returns "database is locked" when the timeout
\* ends while one still reads
TxTilesWaitTo(st, cs, p) ==
    IF cs[p].pc # "writing" THEN {}
    ELSE (IF CanWriteNow(cs, p)
          THEN {TxOutcome([st EXCEPT !.tiles = UpdateTiles(@, TxTilesOf(cs[p]))],
                          [cs EXCEPT ![p].pc = "tiles", ![p].tiled = TRUE,
                                     ![p].at = "", ![p].err = ""])}
          ELSE {})
         \cup
         {TxOutcome(st, [cs EXCEPT ![p].pc = "failed", ![p].tiled = FALSE,
                                   ![p].at = "start", ![p].err = e]) :
             e \in Refusal(CanWriteNow(cs, p))}

TxTilesWait(p) == TxStep(TxTilesWaitTo(store, calls, p))

\* txn, err := i.db.Beginx(); if err != nil { return err }
TxBeginTo(st, cs, p) ==
    IF cs[p].pc # "tiles" THEN {}
    ELSE {TxOutcome(st, [cs EXCEPT ![p].pc = "txn", ![p].at = "", ![p].err = ""]),
          TxOutcome(st, [cs EXCEPT ![p].pc = "failed", ![p].at = "tiles", ![p].err = "io"])}

TxBegin(p) == TxStep(TxBeginTo(store, calls, p))

\* existingProps, err := i.properties(txn.NamedQuery, srcsToUpdate...);
\* if err != nil { txn.Rollback(); return err }
TxReadTo(st, cs, p) ==
    IF cs[p].pc # "txn" THEN {}
    ELSE (IF CanShare(cs, p)
          THEN {TxOutcome(st, [cs EXCEPT
                                 ![p].pc = "read", ![p].at = "", ![p].err = "",
                                 ![p].hasRead = TRUE,
                                 ![p].existing =
                                     properties(st, SrcsOf(TxTilesOf(cs[p]))).result,
                                 ![p].sawDone =
                                     {q \in Callers \ {p} : cs[q].pc = "done"}])}
          ELSE {})
         \cup
         {TxOutcome(st, [cs EXCEPT ![p].pc = "failed", ![p].at = "txn", ![p].err = e,
                                   ![p].hasRead = FALSE, ![p].existing = EmptyMap]) :
             e \in Refusal(CanShare(cs, p))}

TxRead(p) == TxStep(TxReadTo(store, calls, p))

\* the rows of sqlUpdateProps written to the file at once, as a statement
\* outside a transaction is
ExecWritesThrough(st, t, order) ==
    [st EXCEPT !.properties = MergeProps(@, t.existing, t.o, order)]

\* what txn.NamedExec leaves in the database file: the rows stay in the
\* transaction until it commits
ExecEffect(st, t, order) == st

\* the pcs of an Add that has not returned
TxOnItsWay == {"start", "writing", "tiles", "txn", "read", "exec"}

\* the loop over propsCurrent, then _, err = txn.NamedExec(sqlUpdateProps,
\* propStructs); if err != nil { txn.Rollback(); return err }: the rows wait
\* in the transaction, the database file is as it was.  For a source of o
\* without a bag saved.Merge(now) faults in the loop, with the transaction
\* open: nothing returns and nothing is rolled back, the process ends with
\* every Add in it, and the file keeps what was committed.
TxExecTo(st, cs, p) ==
    IF cs[p].pc # "read" THEN {}
    ELSE IF AddPanics(cs[p].o, TxTilesOf(cs[p]))
    THEN {TxOutcome(st, [q \in Callers |->
                           IF q = p THEN [cs[q] EXCEPT !.pc = "panicked", !.at = "read"]
                           ELSE IF cs[q].pc \in TxOnItsWay
                           THEN [cs[q] EXCEPT !.pc = "crashed", !.at = cs[q].pc]
                           ELSE cs[q]])}
    ELSE (IF CanReserve(cs, p)
          THEN {TxOutcome(ExecEffect(st, cs[p], order),
                          [cs EXCEPT ![p].pc = "exec", ![p].order = order,
                                     ![p].at = "", ![p].err = ""]) :
                   order \in OrdersOf(SrcSet(TxTilesOf(cs[p])))}
          ELSE {})
         \cup
         {TxOutcome(st, [cs EXCEPT ![p].pc = "failed", ![p].order = c[1],
                                   ![p].at = "read", ![p].err = c[2]]) :
             c \in OrdersOf(SrcSet(TxTilesOf(cs[p]))) \X Refusal(CanReserve(cs, p))}

TxExec(p) == TxStep(TxExecTo(store, calls, p))

\* return txn.Commit(): the rows of the transaction reach the file together;
\* a commit that is refused is rolled back
TxCommitTo(st, cs, p) ==
    IF cs[p].pc # "exec" THEN {}
    ELSE (IF CanCommit(cs, p)
          THEN {TxOutcome([st EXCEPT !.properties =
                              MergeProps(@, cs[p].existing, cs[p].o, cs[p].order)],
                          [cs EXCEPT ![p].pc = "done", ![p].at = "", ![p].err = ""])}
          ELSE {})
         \cup
         {TxOutcome(st, [cs EXCEPT ![p].pc = "failed", ![p].at = "exec", ![p].err = e]) :
             e \in Refusal(CanCommit(cs, p))}

TxCommit(p) == TxStep(TxCommitTo(store, calls, p))

\* the process dies: every Add that has not returned ends where it is, and
\* what it had not committed is gone
TxCrashTo(st, cs) ==
    IF \A p \in Callers : cs[p].pc \notin TxOnItsWay THEN {}
    ELSE {TxOutcome(st, [p \in Callers |->
                           IF cs[p].pc \in TxOnItsWay
                           THEN [cs[p] EXCEPT !.pc = "crashed", !.at = cs[p].pc]
                           ELSE cs[p]])}

TxCrash == TxStep(TxCrashTo(store, calls))

\* every outcome of one step of one caller, or of the process dying
TxSuccessors(n) ==
    TxCrashTo(n.store, n.calls)
    \cup UNION {TxTilesTo(n.store, n.calls, p) \cup TxTilesWaitTo(n.store, n.calls, p)
                \cup TxBeginTo(n.store, n.calls, p) \cup TxReadTo(n.store, n.calls, p)
                \cup TxExecTo(n.store, n.calls, p) \cup TxCommitTo(n.store, n.calls, p) :
                   p \in Callers}

RECURSIVE TxReachable(_, _)
\* what the callers can come to from the outcomes of front, by any number of
\* steps in any interleaving; known is what was found before
TxReachable(known, front) ==
    IF front = {} THEN known
    ELSE TxReachable(known \cup front,
                     (UNION {TxSuccessors(n) : n \in front}) \ (known \cup front))

\* an object of up to two cells: "b" in the first with bagB; in the second
\* "c" with bagC (second = "c"), the tile that o.Set(1, 0, 0, "") makes for
\* the empty source, which has no bag (second = ""), or nothing ("none")
TxObject(bagB, second, bagC, ord) ==
    IF second = "c"
    THEN SetProperties(Set(SetProperties(Set(New(OW, OH), 0, 0, 0, "b").m, "b", bagB, ord).m,
                           1, 0, 0, "c").m, "c", bagC, ord).m
    ELSE IF second = ""
    THEN Set(SetProperties(Set(New(OW, OH), 0, 0, 0, "b").m, "b", bagB, ord).m, 1, 0, 0, "").m
    ELSE SetProperties(Set(New(OW, OH), 0, 0, 0, "b").m, "b", bagB, ord).m

\* the bags of the callers' objects for "b", the bag without a key among
\* them, and the bags stored beforehand
TxBags == {NewProperties, SetInt(NewProperties, "k1", 1),
           SetString(NewProperties, "k2", <<"a">>)}
TxStored == {EmptyStore,
             InfiniteMapSetProperties(EmptyStore, "b", SetInt(NewProperties, "k1", 2)).st}

\* the second cells of the callers' objects
TxSeconds == {"none", "c", ""}

\* caller p calls i.Add(0, p, 0, o) with an object of its own
TxInits ==
    {TxOutcome(st, [p \in Callers |->
                      [IdleTx EXCEPT
                         !.pc = "start", !.x = 0, !.y = p,
                         !.o = IF p = 1
                               THEN TxObject(b1, s1, SetBool(NewProperties, "k1", TRUE), ord)
                               ELSE TxObject(b2, s2, SetInt(NewProperties, "k2", 2), ord)]]) :
        st \in TxStored, b1 \in TxBags, b2 \in TxBags, s1 \in TxSeconds,
        s2 \in TxSeconds \ {""}, ord \in ListOrders}

TxInit ==
    /\ sres = NoStoreOp
    /\ \E n \in TxInits : store = n.store /\ calls = n.calls

-----------------------------------------------------------------------------
(* The specifications                                                      *)

BagIdle == pa = NewProperties /\ pb = NewProperties /\ plast = NoBagOp
CodecIdle == grid = [w |-> 0, h |-> 0, ids |-> <<>>] /\ text = NoText /\ gout = NoGout
MapIdle == /\ base = New(0, 0) /\ obj = New(0, 0) /\ last = NoOp
           /\ file = NoFile /\ dm = NoDecode /\ nops = NoOps

\* the bags the map specification hands to SetProperties
FewBags == {NewProperties, SetInt(NewProperties, "k1", 1)}

\* Spec: a W x H map built by New, an OW x OH object built by New and the
\* object's own Set / SetProperties, then Set, SetProperties, Fits and Add
Init == /\ BagIdle /\ CodecIdle /\ StoreIdle
        /\ base = New(W, H)
        /\ obj = New(OW, OH)
        /\ last = NoOp
        /\ file = NoFile
        /\ dm = NoDecode
        /\ nops = NoOps

Next == \/ ObjSet(OXs, OYs, Zs, ObjSrcs) /\ UNCHANGED <<bagVars, codecVars, storeVars>>
        \/ DoSet(Xs, Ys, Zs, Srcs) /\ UNCHANGED <<bagVars, codecVars, storeVars>>
        \/ DoSetProperties(Srcs, FewBags) /\ UNCHANGED <<bagVars, codecVars, storeVars>>
        \/ DoFits(AnchorXs, AnchorYs, ZOffsets) /\ UNCHANGED <<bagVars, codecVars, storeVars>>
        \/ DoAdd(AnchorXs, AnchorYs, ZOffsets) /\ UNCHANGED <<bagVars, codecVars, storeVars>>

Spec == Init /\ [][Next]_vars

\* SpecBag: the property bag alone
InitBag == BagInit /\ CodecIdle /\ MapIdle /\ StoreIdle

NextBag == \/ ASetString /\ UNCHANGED <<codecVars, mapVars, storeVars>>
           \/ ASetInt /\ UNCHANGED <<codecVars, mapVars, storeVars>>
           \/ ASetBool /\ UNCHANGED <<codecVars, mapVars, storeVars>>
           \/ BSetString /\ UNCHANGED <<codecVars, mapVars, storeVars>>
           \/ BSetInt /\ UNCHANGED <<codecVars, mapVars, storeVars>>
           \/ BSetBool /\ UNCHANGED <<codecVars, mapVars, storeVars>>
           \/ MergeAB /\ UNCHANGED <<codecVars, mapVars, storeVars>>

SpecBag == InitBag /\ [][NextBag]_vars

\* SpecCodec: the grid codec alone
InitCodec == CodecInit /\ BagIdle /\ MapIdle /\ StoreIdle

NextCodec == \/ CodecEncode /\ UNCHANGED <<bagVars, mapVars, storeVars>>
             \/ CodecDecode /\ UNCHANGED <<bagVars, mapVars, storeVars>>

SpecCodec == InitCodec /\ [][NextCodec]_vars

\* SpecCsv: decodeCSV on any text.  The texts are all strings of at most
\* MaxRawLen runes over RawRunes, and a few numerals around the limits of
\* ParseUint(s, 10, 32); the layer's width and height are whatever the file says.
MaxRawLen == 4
RawRunes == {"0", "1", ",", NL, "-"}
LongTexts == {<<"2","1","4","7","4","8","3","6","4","7">>,
              <<"4","2","9","4","9","6","7","2","9","6">>,
              <<"0","0","0","0","0","0","0","0","0","0","7">>,
              <<"9","9","9","9","9","9","9","9","9","9","9">>,
              <<"1","2",",","x","3",NL,"4","2","9","4","9","6","7","2","9","6">>}
RawTexts == UNION {[1..n -> RawRunes] : n \in 0..MaxRawLen} \cup LongTexts

InitCsv == /\ \E w \in 0..MaxGridW, h \in 0..MaxGridH :
                 grid = [w |-> w, h |-> h, ids |-> <<>>]
           /\ \E raw \in RawTexts : text = [done |-> TRUE, raw |-> raw]
           /\ gout = NoGout
           /\ BagIdle /\ MapIdle /\ StoreIdle

NextCsv == CodecDecode /\ UNCHANGED <<bagVars, mapVars, storeVars>>

SpecCsv == InitCsv /\ [][NextCsv]_vars

\* the bags of SpecP: each key absent or set, by the setter of one type
KeyStates == {"none", PropInt, PropString, PropBool}

WithKey(p, k, t) == IF t = PropInt THEN SetInt(p, k, 1)
                    ELSE IF t = PropString THEN SetString(p, k, <<"a">>)
                    ELSE IF t = PropBool THEN SetBool(p, k, TRUE)
                    ELSE p

TypedBags == {WithKey(WithKey(NewProperties, "k1", t1), "k2", t2) :
                 t1 \in KeyStates, t2 \in KeyStates}

\* SpecP: the object gets a tile "b" and a bag for it, the base map a bag
\* for the same source, then the object is added at the origin
InitP == Init

NextP == \/ ObjSet(OXs, OYs, {0}, ObjSrcs) /\ UNCHANGED <<bagVars, codecVars, storeVars>>
         \/ ObjSetProperties(ObjSrcs, TypedBags) /\ UNCHANGED <<bagVars, codecVars, storeVars>>
         \/ DoSetProperties(ObjSrcs, TypedBags) /\ UNCHANGED <<bagVars, codecVars, storeVars>>
         \/ DoAdd({0}, {0}, {0}) /\ UNCHANGED <<bagVars, codecVars, storeVars>>

SpecP == InitP /\ [][NextP]_vars

\* SpecRT: a map of any size from 0 x 0 to W x H built by New, Set,
\* SetProperties and SetMapProperties, then Encode, then Decode of the file
InitRT == /\ BagIdle /\ CodecIdle /\ StoreIdle
          /\ \E w \in 0..W, h \in 0..H : base = New(w, h)
          /\ obj = New(0, 0)
          /\ last = NoOp
          /\ file = NoFile
          /\ dm = NoDecode
          /\ nops = NoOps

NextRT == \/ DoSet(Xs, Ys, Zs, Srcs) /\ UNCHANGED <<bagVars, codecVars, storeVars>>
          \/ DoSetProperties(Srcs, FewBags) /\ UNCHANGED <<bagVars, codecVars, storeVars>>
          \/ DoSetMapProperties(FewBags) /\ UNCHANGED <<bagVars, codecVars, storeVars>>
          \/ DoEncode /\ UNCHANGED <<bagVars, codecVars, storeVars>>
          \/ DoDecode /\ UNCHANGED <<bagVars, codecVars, storeVars>>

SpecRT == InitRT /\ [][NextRT]_vars

\* the bags a caller can hold: built by the setters, or by Merge of two such
MergedBags == {Merge(a, b) : a \in TypedBags, b \in TypedBags}

\* SpecSP: Set and SetProperties on the base map, with every bag a caller
\* can hold
InitSP == Init

NextSP == \/ DoSet(OXs, OYs, {0}, Srcs) /\ UNCHANGED <<bagVars, codecVars, storeVars>>
          \/ DoSetProperties(Srcs, MergedBags) /\ UNCHANGED <<bagVars, codecVars, storeVars>>

SpecSP == InitSP /\ [][NextSP]_vars

\* Maps that come from a file: the base map is built and encoded, the file is
\* read back (as written, or changed), and work goes on on the decoded map.
GridEdits == {<<>>, <<",">>, <<"5">>, <<"1", "-", "2">>}
InitD == Init
NextD ==
    \/ ObjSet(OXs, OYs, {0}, ObjSrcs) /\ UNCHANGED <<bagVars, codecVars, storeVars>>
    \/ DoSet(OXs, OYs, Zs, {"a"}) /\ UNCHANGED <<bagVars, codecVars, storeVars>>
    \/ DoEncode /\ UNCHANGED <<bagVars, codecVars, storeVars>>
    \/ DropTilesets /\ UNCHANGED <<bagVars, codecVars, storeVars>>
    \/ RepeatTileset /\ UNCHANGED <<bagVars, codecVars, storeVars>>
    \/ EditGrid(GridEdits) /\ UNCHANGED <<bagVars, codecVars, storeVars>>
    \/ DoDecode /\ UNCHANGED <<bagVars, codecVars, storeVars>>
    \/ DecSet(OXs, OYs, {0}, {"a", "c"}) /\ UNCHANGED <<bagVars, codecVars, storeVars>>
    \/ DecSetProperties({"a", "c"}, FewBags) /\ UNCHANGED <<bagVars, codecVars, storeVars>>
    \/ DecAdd({0}, {0}, {0}) /\ UNCHANGED <<bagVars, codecVars, storeVars>>
SpecD == InitD /\ [][NextD]_vars

\* SpecSet: Set on the InfiniteMap alone
InitSet == Init

NextSet == StSet(StXs, StYs, StZs, Srcs \cup ObjSrcs) /\ UNCHANGED <<bagVars, codecVars, mapVars>>

SpecSet == InitSet /\ [][NextSet]_vars

\* the bags of the store's runs: one key, absent or of each type
OneKeyBags == {WithKey(NewProperties, "k1", t) : t \in KeyStates}
             \cup {SetInt(SetString(NewProperties, "k2", <<"1", "\"", "<">>), "k1", 2)}

\* SpecSt: the object is built, then Set, SetProperties, Fits and Add on the
\* InfiniteMap
InitSt == Init

NextSt ==
    \/ ObjSet(OXs, OYs, Zs, ObjSrcs) /\ UNCHANGED <<bagVars, codecVars, storeVars>>
    \/ ObjSetProperties(ObjSrcs, OneKeyBags) /\ UNCHANGED <<bagVars, codecVars, storeVars>>
    \/ StSet({0 - 1, 0, 1}, {0}, {0 - 1, 0, 1}, {"", "b"})
         /\ UNCHANGED <<bagVars, codecVars, mapVars>>
    \/ StSetProperties(ObjSrcs, OneKeyBags) /\ UNCHANGED <<bagVars, codecVars, mapVars>>
    \/ StFits({0 - 1, 0}, {0}, {0 - 1, 0}) /\ UNCHANGED <<bagVars, codecVars, mapVars>>
    \/ StAddTiles({0 - 1, 0}, {0}, {0, 1}, BOOLEAN) /\ UNCHANGED <<bagVars, codecVars, mapVars>>
    \/ StAddProps(BOOLEAN) /\ UNCHANGED <<bagVars, codecVars, mapVars>>

SpecSt == InitSt /\ [][NextSt]_vars

\* SpecI: the same operations on a W x H Map and on an InfiniteMap, every
\* destination inside the W x H region and zoffset >= 0
InitI == Init

NextI ==
    \/ ObjSet(OXs, OYs, Zs, ObjSrcs) /\ UNCHANGED <<bagVars, codecVars, storeVars>>
    \/ ObjSetProperties(ObjSrcs, OneKeyBags) /\ UNCHANGED <<bagVars, codecVars, storeVars>>
    \/ BothSet(0..(W - 1), 0..(H - 1), Zs, Srcs \cup ObjSrcs) /\ UNCHANGED <<bagVars, codecVars>>
    \/ BothSetProperties(Srcs \cup ObjSrcs, OneKeyBags) /\ UNCHANGED <<bagVars, codecVars>>
    \/ BothAdd(0..(W - OW), 0..(H - OH), {0, 1}, {TRUE}) /\ UNCHANGED <<bagVars, codecVars>>
    \/ StAddProps({TRUE}) /\ UNCHANGED <<bagVars, codecVars, mapVars>>

SpecI == InitI /\ [][NextI]_vars

\* SpecTx: two callers of InfiniteMap.Add side by side, storage errors and
\* a crash of the process included
InitTx == TxInit /\ BagIdle /\ CodecIdle /\ MapIdle

NextTx ==
    \/ \E p \in Callers : TxTiles(p) /\ UNCHANGED <<bagVars, codecVars, mapVars>>
    \/ \E p \in Callers : TxTilesWait(p) /\ UNCHANGED <<bagVars, codecVars, mapVars>>
    \/ \E p \in Callers : TxBegin(p) /\ UNCHANGED <<bagVars, codecVars, mapVars>>
    \/ \E p \in Callers : TxRead(p) /\ UNCHANGED <<bagVars, codecVars, mapVars>>
    \/ \E p \in Callers : TxExec(p) /\ UNCHANGED <<bagVars, codecVars, mapVars>>
    \/ \E p \in Callers : TxCommit(p) /\ UNCHANGED <<bagVars, codecVars, mapVars>>
    \/ TxCrash /\ UNCHANGED <<bagVars, codecVars, mapVars>>

SpecTx == InitTx /\ [][NextTx]_vars

\* SpecE: a map built by New, Set and SetProperties is encoded, the file is
\* decoded, and the decoded map is encoded in its turn, once or twice
InitE == Init

NextE == \/ DoSet(Xs, Ys, Zs, Srcs) /\ UNCHANGED <<bagVars, codecVars, storeVars>>
         \/ DoSetProperties(Srcs, FewBags) /\ UNCHANGED <<bagVars, codecVars, storeVars>>
         \/ DoEncode /\ UNCHANGED <<bagVars, codecVars, storeVars>>
         \/ DoDecode /\ UNCHANGED <<bagVars, codecVars, storeVars>>
         \/ DecEncode /\ UNCHANGED <<bagVars, codecVars, storeVars>>

SpecE == InitE /\ [][NextE]_vars

\* SpecR: Set, SetProperties and Add with the lookups At, Properties,
\* ZLevels and Fits between them, and changes to the bags they return
InitR == Init

NextR == \/ ObjSet({0}, {0}, {0}, ObjSrcs) /\ UNCHANGED <<bagVars, codecVars, storeVars>>
         \/ ObjSetProperties(ObjSrcs, FewBags) /\ UNCHANGED <<bagVars, codecVars, storeVars>>
         \/ DoSet({0, 1}, {0}, {0, 1}, {"a"}) /\ UNCHANGED <<bagVars, codecVars, storeVars>>
         \/ DoSetProperties({"a"}, FewBags) /\ UNCHANGED <<bagVars, codecVars, storeVars>>
         \/ DoAt(Xs, Ys, Zs) /\ UNCHANGED <<bagVars, codecVars, storeVars>>
         \/ DoProperties(Srcs \cup ObjSrcs) /\ UNCHANGED <<bagVars, codecVars, storeVars>>
         \/ DoZLevels /\ UNCHANGED <<bagVars, codecVars, storeVars>>
         \/ ChangeBag /\ UNCHANGED <<bagVars, codecVars, storeVars>>
         \/ DoFits({0}, {0}, ZOffsets) /\ UNCHANGED <<bagVars, codecVars, storeVars>>
         \/ DoAdd({0}, {0}, ZOffsets) /\ UNCHANGED <<bagVars, codecVars, storeVars>>

SpecR == InitR /\ [][NextR]_vars

\* SpecF: Fits and Add on the store with objects that have layers below 0
InitF == Init

NextF ==
    \/ ObjSet(OXs, OYs, {0 - 1, 0}, ObjSrcs) /\ UNCHANGED <<bagVars, codecVars, storeVars>>
    \/ StSet({0, 1}, {0}, {0 - 1, 0}, {"a"}) /\ UNCHANGED <<bagVars, codecVars, mapVars>>
    \/ StFits({0 - 1, 0}, {0}, {0, 1}) /\ UNCHANGED <<bagVars, codecVars, mapVars>>
    \/ StAddTiles({0 - 1, 0}, {0}, {0, 1}, BOOLEAN) /\ UNCHANGED <<bagVars, codecVars, mapVars>>
    \/ StAddProps(BOOLEAN) /\ UNCHANGED <<bagVars, codecVars, mapVars>>

SpecF == InitF /\ [][NextF]_vars

\* SpecL: a map with or without image layers (as a file from the editor
\* brings them), tile layers created in any order of z, SetBackground, then
\* Encode
LayerZs == {0 - 1, 2, 10}
BgSrcs == {"bg.png"}

\* the image of src stretched over the W x H map
ImageOf(src) == [isNil |-> FALSE, Source |-> src,
                 Width |-> TileWidth * W, Height |-> TileHeight * H]

ImageLayerLists ==
    {<<>>,
     <<[ID |-> 7, Name |-> <<"1">>, Image |-> ImageOf("one.png")],
       [ID |-> 3, Name |-> <<"0">>, Image |-> ImageOf("zero.png")]>>,
     <<[ID |-> 0, Name |-> <<"s", "k", "y">>, Image |-> ImageOf("sky.png")]>>,
     <<[ID |-> 1, Name |-> BackgroundName, Image |-> NilImage]>>}

InitL == /\ BagIdle /\ CodecIdle /\ StoreIdle
         /\ \E il \in ImageLayerLists : base = [New(W, H) EXCEPT !.ImageLayers = il]
         /\ obj = New(0, 0)
         /\ last = NoOp
         /\ file = NoFile
         /\ dm = NoDecode
         /\ nops = NoOps

NextL == \/ DoSet(Xs, Ys, LayerZs, Srcs) /\ UNCHANGED <<bagVars, codecVars, storeVars>>
         \/ DoSetBackground(BgSrcs) /\ UNCHANGED <<bagVars, codecVars, storeVars>>
         \/ DoEncode /\ UNCHANGED <<bagVars, codecVars, storeVars>>

SpecL == InitL /\ [][NextL]_vars

\* SpecM: Set and SetProperties on the store, and Map over rectangles of
\* every shape around the origin, the empty and the inverted ones included;
\* between the two statements of a Map another caller may Set and
\* SetProperties
MapXs == {0 - 1, 0, 1, 2}
MapYs == {0, 1}
MapX0s == {0 - 1, 0, 1}
MapY0s == {0}
MapDXs == {0 - 1, 0, 1, 2}
MapDYs == {0, 1}

\* the stores Map is called on to begin with: a new one, and one on which
\* i.Set(0, 0, 0, "a") has run
MapStored == {EmptyStore, InfiniteMapSet(EmptyStore, 0, 0, 0, "a")}

InitM == /\ BagIdle /\ CodecIdle
         /\ store \in MapStored /\ sres = NoStoreOp /\ calls = NoTx
         /\ base = New(W, H)
         /\ obj = New(OW, OH)
         /\ last = NoOp
         /\ file = NoFile
         /\ dm = NoDecode
         /\ nops = NoOps

NextM ==
    \/ StSet(MapXs, MapYs, Zs, {"", "a"}) /\ UNCHANGED <<bagVars, codecVars, mapVars>>
    \/ StSetProperties({"a"}, OneKeyBags) /\ UNCHANGED <<bagVars, codecVars, mapVars>>
    \/ StMapTiles(MapX0s, MapY0s, MapDXs, MapDYs) /\ UNCHANGED <<bagVars, codecVars, mapVars>>
    \/ StMapProps /\ UNCHANGED <<bagVars, codecVars, mapVars>>

SpecM == InitM /\ [][NextM]_vars

-----------------------------------------------------------------------------
(* Claims about Map.Fits, Map.Add and Map.Set, checked under Spec          *)

\* the non-empty cells of the integer-named layers of ob: <<z, tx, ty, tid>>
PlacedCells(ob) ==
    {<<ParseInt(ob.TileLayers[li].Name).val,
       (ci - 1) % ob.Width, (ci - 1) \div ob.Width,
       ob.TileLayers[li].decodedTiles[ci]>> :
       <<li, ci>> \in {c \in (1..Len(ob.TileLayers)) \X (1..(OW * OH)) :
                        /\ ParseIntOk(ob.TileLayers[c[1]].Name)
                        /\ c[2] <= Len(ob.TileLayers[c[1]].decodedTiles)
                        /\ ob.TileLayers[c[1]].decodedTiles[c[2]] # 0}}

\* the value of cell ci of the li-th layer, 0 when the map has no such layer
CellOf(mp, li, ci) == IF li <= Len(mp.TileLayers) /\ ci <= Len(mp.TileLayers[li].decodedTiles)
                      THEN mp.TileLayers[li].decodedTiles[ci]
                      ELSE 0

\* some non-empty cell of o lands off the map or on a cell where At is not nil
Collides(mp, x, y, zoffset, ob) ==
    \E c \in PlacedCells(ob) :
        \/ x + c[2] < 0 \/ x + c[2] >= mp.Width
        \/ y + c[3] < 0 \/ y + c[3] >= mp.Height
        \/ ~At(mp, x + c[2], y + c[3], zoffset + c[1]).isNil

\* C1: with zoffset >= 0, Fits returns false exactly when some non-empty
\* cell of an integer-named layer of o has its destination outside the map
\* or on a cell where At is not absent, and true otherwise
C1_FitsIffNoCollision ==
    (last.op = "Fits" /\ last.z >= 0) =>
        (last.fits = ~Collides(base, last.x, last.y, last.z, obj))

\* C1 witness: a Fits that returned false for an object lying wholly on the
\* map, because a destination cell is taken
C1_Witness ==
    /\ last.op = "Fits" /\ last.z >= 0 /\ ~last.fits
    /\ PlacedCells(obj) # {}
    /\ \A c \in PlacedCells(obj) :
          /\ last.x + c[2] >= 0 /\ last.x + c[2] < base.Width
          /\ last.y + c[3] >= 0 /\ last.y + c[3] < base.Height

\* C2 as stated: after any Add that completes, Fits with the same arguments
\* returns false
C2_AddThenFitsFalse ==
    (last.op = "Add" /\ ~last.panic) => ~Fits(base, last.x, last.y, last.z, obj)

\* o has a non-empty cell in an integer-named layer whose id is a tile of o
HasPlaceableCell(ob) ==
    \E c \in PlacedCells(ob) : c[4] \in DOMAIN ob.Tilesets[1].tileByID

\* C2 amended: for a map built by New, Set, SetProperties and Add, an
\* explicit zoffset >= 0 and an object with at least one non-empty cell that
\* names a tile of its tileset, after Add completes Fits with the same
\* arguments returns false
C2_AddThenFitsFalseWhenPlaced ==
    (last.op = "Add" /\ ~last.panic /\ last.z >= 0 /\ HasPlaceableCell(obj)) =>
        ~Fits(base, last.x, last.y, last.z, obj)

\* C2 witness: the placement fitted before the Add and placed a tile
C2_Witness ==
    /\ last.op = "Add" /\ ~last.panic /\ last.z >= 0 /\ HasPlaceableCell(obj)
    /\ Fits(last.pre, last.x, last.y, last.z, obj)
    /\ ~Fits(base, last.x, last.y, last.z, obj)

\* the cells of the map whose value differs from the value before the last
\* operation (layers are only appended, so positions match)
ChangedCells(before, after) ==
    {c \in (1..Len(after.TileLayers)) \X (1..(W * H)) :
        CellOf(after, c[1], c[2]) # CellOf(before, c[1], c[2])}

\* C3: when Fits returned true for the arguments of an Add, every cell the
\* Add changes was empty (0, or in a layer that did not exist) before it
C3_FitsThenAddOverwritesNothing ==
    (last.op = "Add" /\ Fits(last.pre, last.x, last.y, last.z, obj)) =>
        \A c \in ChangedCells(last.pre, base) : CellOf(last.pre, c[1], c[2]) = 0

\* C3 witness: an Add that fitted, onto a map that already held a tile, in a
\* layer that already existed, and that changed a cell
C3_Witness ==
    /\ last.op = "Add" /\ Fits(last.pre, last.x, last.y, last.z, obj)
    /\ \E c \in ChangedCells(last.pre, base) :
          /\ c[1] <= Len(last.pre.TileLayers)
          /\ \E d \in 1..(W * H) : CellOf(last.pre, c[1], d) # 0

\* C9 as stated: Set with the empty source on a cell of the map leaves 0 in
\* the cell and At absent
C9_EmptySourceWritesZero ==
    (/\ last.op = "Set" /\ last.src = "" /\ ~last.err
     /\ last.x >= 0 /\ last.x < base.Width /\ last.y >= 0 /\ last.y < base.Height) =>
        /\ CellOf(base, LayerOfZ(base, last.z), last.y * base.Width + last.x + 1) = 0
        /\ At(base, last.x, last.y, last.z).isNil

\* C10 as stated: a Set that returns the out-of-bounds error leaves the
\* layer list, the cells, the tileset and nextID as they were
C10_FailedSetChangesNothing ==
    (last.op = "Set" /\ last.err) => base = last.pre

\* the coordinates one step around the map: those of At in C11
AroundXs == (0 - 1)..W
AroundYs == (0 - 1)..H

\* C11 as stated: a Set with x outside [0,Width) or y outside [0,Height)
\* returns the out-of-bounds error and changes no cell, and At of such a
\* coordinate is absent
C11_OutsideNeverMapped ==
    /\ (/\ last.op = "Set"
         /\ \/ last.x < 0 \/ last.x >= base.Width
            \/ last.y < 0 \/ last.y >= base.Height) =>
           (last.err /\ ChangedCells(last.pre, base) = {})
    /\ \A x \in AroundXs, y \in AroundYs, z \in Zs :
           (x < 0 \/ x >= base.Width \/ y < 0 \/ y >= base.Height) =>
               At(base, x, y, z).isNil

\* C13: every tile of the tileset has an id >= 1, and a cell of a layer
\* holds 0 exactly when At reports the cell absent
C13_ZeroIsAbsence ==
    /\ \A i \in 1..Len(base.Tilesets[1].Tiles) : base.Tilesets[1].Tiles[i].ID >= 1
    /\ \A li \in 1..Len(base.TileLayers) :
          \A x \in 0..(base.Width - 1), y \in 0..(base.Height - 1) :
              (base.TileLayers[li].decodedTiles[y * base.Width + x + 1] = 0)
                  <=> At(base, x, y, ParseInt(base.TileLayers[li].Name).val).isNil

\* C13 witness: two tiles in the tileset, and a layer with a written cell
\* and an empty one
C13_Witness ==
    /\ Len(base.Tilesets[1].Tiles) >= 2
    /\ \E li \in 1..Len(base.TileLayers) :
          /\ \E c \in 1..(W * H) : base.TileLayers[li].decodedTiles[c] = 0
          /\ \E c \in 1..(W * H) : base.TileLayers[li].decodedTiles[c] # 0

-----------------------------------------------------------------------------
(* Claims about the property bag, checked under SpecBag                    *)

KeysOf(p) == (DOMAIN p.ints) \cup (DOMAIN p.strings) \cup (DOMAIN p.bools)

\* what the three getters report for a key
Entry(p, k) == [i |-> GetInt(p, k), s |-> GetString(p, k), b |-> GetBool(p, k)]

OneTypePerKey(p) ==
    \A k \in KeysOf(p) :
        Cardinality({t \in {PropInt, PropString, PropBool} :
                        \/ t = PropInt /\ k \in DOMAIN p.ints
                        \/ t = PropString /\ k \in DOMAIN p.strings
                        \/ t = PropBool /\ k \in DOMAIN p.bools}) = 1

\* C7 as stated: after A.Merge(B) every key of B is in A under B's type and
\* value only, and every key that only A held keeps its type and value
C7_MergeKeepsOneType ==
    plast.op = "Merge" =>
        /\ \A k \in KeysOf(pb) : Entry(pa, k) = Entry(pb, k)
        /\ \A k \in KeysOf(plast.preA) \ KeysOf(pb) : Entry(pa, k) = Entry(plast.preA, k)
        /\ plast.ret = pa

\* C8: in a bag built from NewProperties by the setters alone every key is in
\* exactly one of the three mappings, and after a setter the getter of the
\* type set reports the value set
C8_SettersEvict ==
    plast.op # "Merge" =>
        /\ OneTypePerKey(pa)
        /\ OneTypePerKey(pb)
        /\ plast.op = "Set" =>
              /\ plast.type = PropInt => GetInt(pa, plast.key) = [ok |-> TRUE, val |-> plast.ival]
              /\ plast.type = PropString =>
                    GetString(pa, plast.key) = [ok |-> TRUE, val |-> plast.sval]
              /\ plast.type = PropBool =>
                    GetBool(pa, plast.key) = [ok |-> TRUE, val |-> plast.bval]

\* C8 witness: a setter has run on a key the bag held under another type
C8_Witness ==
    /\ plast.op = "Set"
    /\ plast.key \in KeysOf(plast.preA)
    /\ \/ plast.type = PropInt /\ plast.key \notin DOMAIN plast.preA.ints
       \/ plast.type = PropString /\ plast.key \notin DOMAIN plast.preA.strings
       \/ plast.type = PropBool /\ plast.key \notin DOMAIN plast.preA.bools

-----------------------------------------------------------------------------
(* Claims about the grid codec, checked under SpecCodec                    *)

\* C6 as stated: for every width, height and ids of length width*height,
\* decodeCSV of encodeCSV's text succeeds and returns ids
C6_CodecInverse ==
    gout.done => (~gout.err /\ gout.gids = grid.ids)

\* The tokens of a text, read off the text itself: token k lies between the
\* (k-1)-th and the k-th comma, and is made of the digits found there.
CommasBefore(raw, i) == Cardinality({j \in 1..(i - 1) : raw[j] = ","})
NTokens(raw) == CommasBefore(raw, Len(raw) + 1) + 1
TokenDigitsAt(raw, k) ==
    {i \in 1..Len(raw) : raw[i] \in DigitSet /\ CommasBefore(raw, i) = k - 1}
\* the digits of token k that follow its leading zeros
Significant(raw, k) ==
    {i \in TokenDigitsAt(raw, k) :
        \E j \in TokenDigitsAt(raw, k) : j <= i /\ raw[j] # "0"}
Pow10(n) == IF n = 0 THEN 1 ELSE IF n = 1 THEN 10 ELSE IF n = 2 THEN 100
            ELSE IF n = 3 THEN 1000 ELSE IF n = 4 THEN 10000
            ELSE IF n = 5 THEN 100000 ELSE IF n = 6 THEN 1000000
            ELSE IF n = 7 THEN 10000000 ELSE IF n = 8 THEN 100000000
            ELSE 1000000000
RECURSIVE SumOver(_, _, _)
\* the sum over the positions in P of digit * 10^(digits of S after it)
SumOver(raw, P, S) ==
    IF P = {} THEN 0
    ELSE LET i == CHOOSE p \in P : TRUE
         IN  DigitVal(raw[i]) * Pow10(Cardinality({j \in S : j > i}))
               + SumOver(raw, P \ {i}, S)
TokenValue(raw, k) == SumOver(raw, Significant(raw, k), Significant(raw, k))
\* the value of the first nine significant digits, and the tenth digit
LeadNine(raw, k) ==
    SumOver(raw, {i \in Significant(raw, k) :
                     Cardinality({j \in Significant(raw, k) : j > i}) >= 1},
                 {i \in Significant(raw, k) :
                     Cardinality({j \in Significant(raw, k) : j > i}) >= 1})
LastDigit(raw, k) ==
    DigitVal(raw[CHOOSE i \in Significant(raw, k) :
                    \A j \in Significant(raw, k) : j <= i])
\* token k is a decimal numeral of at most 2^32 - 1 = 4294967295
TokenValid(raw, k) ==
    /\ TokenDigitsAt(raw, k) # {}
    /\ \/ Cardinality(Significant(raw, k)) <= 9
       \/ /\ Cardinality(Significant(raw, k)) = 10
          /\ \/ LeadNine(raw, k) < 429496729
             \/ LeadNine(raw, k) = 429496729 /\ LastDigit(raw, k) <= 5

\* C16: decodeCSV drops every rune that is neither a digit nor a comma and
\* cuts the rest at the commas; it fails exactly when some token, an empty
\* one included, is not an unsigned 32-bit decimal, and otherwise returns
\* the value of each token in order, however many the layer's size asks for.
C16_DecodeCSVTokens ==
    gout.done =>
        /\ gout.err <=> \E k \in 1..NTokens(text.raw) : ~TokenValid(text.raw, k)
        /\ ~gout.err =>
              /\ Len(gout.gids) = NTokens(text.raw)
              /\ \A k \in 1..NTokens(text.raw) :
                    gout.gids[k] = TokenValue(text.raw, k)

\* a text with dropped runes decoded to a number of ids other than the
\* layer's width * height
C16_Witness ==
    /\ gout.done /\ ~gout.err
    /\ Len(gout.gids) # grid.w * grid.h
    /\ Len(gout.gids) >= 2
    /\ \E i \in 1..Len(text.raw) : ~cleaner(text.raw[i])

-----------------------------------------------------------------------------
(* Claims about the merge of property bags by Map.Add, checked under SpecP *)

\* the sources of the tiles that Add writes from ob into the map
PlacedSources(ob) ==
    {ob.Tilesets[1].Tiles[ob.Tilesets[1].tileByID[c[4]]].Source :
        c \in {d \in PlacedCells(ob) : d[4] \in DOMAIN ob.Tilesets[1].tileByID}}

\* C4 as stated: after an Add that placed a tile of source s, m.Properties(s)
\* reports every key of o's bag for s with o's type and value, and every
\* other key of the bag m held for s before the Add as it was
C4_AddMergesBags ==
    (last.op = "Add" /\ ~last.panic) =>
        \A s \in PlacedSources(obj) :
            /\ \A k \in KeysOf(Properties(obj, s)) :
                  Entry(Properties(base, s), k) = Entry(Properties(obj, s), k)
            /\ \A k \in KeysOf(Properties(last.pre, s)) \ KeysOf(Properties(obj, s)) :
                  Entry(Properties(base, s), k) = Entry(Properties(last.pre, s), k)

-----------------------------------------------------------------------------
(* Claims about Encode and Decode, checked under SpecRT                    *)

\* the source of the tile the cell (x, y, z) refers to: <<FALSE, "">> for an
\* empty cell, a missing layer or an id without a tile
SourceAt(mp, x, y, z) ==
    LET id == CellOf(mp, LayerOfZ(mp, z), y * mp.Width + x + 1)
    IN  IF LayerOfZ(mp, z) = 0 \/ id = 0 \/ id \notin DOMAIN mp.Tilesets[1].tileByID
        THEN <<FALSE, "">>
        ELSE <<TRUE, mp.Tilesets[1].Tiles[mp.Tilesets[1].tileByID[id]].Source>>

\* m2 shows what m1 shows: cell by cell the same source and the same At,
\* source by source the same bag
SameContent(m1, m2) ==
    /\ \A x \in 0..(m1.Width - 1), y \in 0..(m1.Height - 1), z \in Zs :
          /\ SourceAt(m2, x, y, z) = SourceAt(m1, x, y, z)
          /\ At(m2, x, y, z) = At(m1, x, y, z)
    /\ \A s \in Srcs : Properties(m2, s) = Properties(m1, s)

\* C5 as stated: Decode of what Encode wrote succeeds and yields a map with
\* the same cells, the same At and the same bags
C5_RoundTrip ==
    dm.done => (~dm.err /\ SameContent(base, dm.m))

-----------------------------------------------------------------------------
(* Claims about Map.SetProperties, checked under SpecSP                    *)

\* C14 as stated: after SetProperties(s, bag) with s non-empty the tile of s
\* exists and Properties(s) is bag, whatever s held before; with the empty
\* source nothing changes and Properties("") is absent
C14_SetPropertiesReplaces ==
    (last.op = "SetProperties" /\ ~last.panic) =>
        IF last.src # ""
        THEN /\ TileBySrc(base, last.src) # 0
             /\ Properties(base, last.src) = last.bag
        ELSE /\ base = last.pre
             /\ Properties(base, "").isNil

-----------------------------------------------------------------------------
(* Claims about maps read from a file, checked under SpecD                 *)

\* the tiles of the map's one tileset
TilesOf(mp) == IF mp.Tilesets = <<>> THEN <<>> ELSE mp.Tilesets[1].Tiles

\* no two tiles of mp share a source, and no two share an id
Bijective(mp) ==
    \A i \in 1..Len(TilesOf(mp)), j \in 1..Len(TilesOf(mp)) :
        i # j => /\ TilesOf(mp)[i].Source # TilesOf(mp)[j].Source
                 /\ TilesOf(mp)[i].ID # TilesOf(mp)[j].ID

\* C12: in every map built by New, or decoded from a file as Encode wrote
\* it, and then changed by Set, SetProperties and Add, the tiles of the
\* tileset have pairwise different sources and pairwise different ids.
C12_SourceIdBijection ==
    /\ Bijective(base)
    /\ (dm.done /\ ~dm.isNil /\ ~file.edited => Bijective(dm.m))

\* the grid text of layer li of the file has a token that is no number
GridRefused(li) ==
    \E k \in 1..NTokens(file.doc.TileLayers[li].RawData) :
        ~TokenValid(file.doc.TileLayers[li].RawData, k)

\* C15: when the file has no tileset or more than one, or the grid text of
\* some layer does not parse, Decode returns an error and a nil map; and
\* whenever Decode returns an error the map is nil.
C15_DecodeErrorNoMap ==
    dm.done =>
        /\ (\/ Len(file.doc.Tilesets) # 1
            \/ \E li \in 1..Len(file.doc.TileLayers) : GridRefused(li))
              => dm.err /\ dm.isNil
        /\ dm.err => dm.isNil

\* a file with its one tileset and two layers, the first of which parses
\* and the second does not, was refused
C15_Witness ==
    /\ dm.done /\ dm.err /\ dm.isNil
    /\ Len(file.doc.Tilesets) = 1
    /\ Len(file.doc.TileLayers) = 2
    /\ ~GridRefused(1) /\ GridRefused(2)

-----------------------------------------------------------------------------
(* Claims about InfiniteMap.Set and At, checked under SpecSet              *)

\* C18: At(x, y, z) is the source of the latest Set on (x, y, z), "" when
\* there was none; the Set just made, made again, leaves the store as it
\* is; and it changed what At returns on no other coordinate.
C18_SetIsUpsert ==
    /\ \A c \in StCoords : InfiniteMapAt(store, c[1], c[2], c[3]) = sres.written[c]
    /\ sres.op = "Set" =>
          /\ InfiniteMapSet(store, sres.x, sres.y, sres.z, sres.src) = store
          /\ \A c \in StCoords \ {<<sres.x, sres.y, sres.z>>} :
                InfiniteMapAt(store, c[1], c[2], c[3])
                   = InfiniteMapAt(sres.pre, c[1], c[2], c[3])

\* a Set on a negative x while the coordinate with the opposite x holds
\* another source
C18_Witness ==
    /\ sres.op = "Set" /\ sres.x < 0
    /\ InfiniteMapAt(sres.pre, 0 - sres.x, sres.y, sres.z) \notin {"", sres.src}

-----------------------------------------------------------------------------
(* Claims about InfiniteMap.Fits and Add, checked under SpecSt             *)

\* the integer layer names of ob
LayerNumbers(ob) ==
    {ParseInt(ob.TileLayers[i].Name).val :
        i \in {j \in 1..Len(ob.TileLayers) : ParseIntOk(ob.TileLayers[j].Name)}}

LargestLayer(ob) ==
    IF LayerNumbers(ob) = {} THEN 0
    ELSE CHOOSE n \in LayerNumbers(ob) : \A k \in LayerNumbers(ob) : k <= n

\* the coordinates of the box of Fits that hold a record
BoxRecords(st, x, y, z, ob) ==
    {c \in (x..(x + ob.Width - 1)) \X (y..(y + ob.Height - 1))
             \X (z..(z + LargestLayer(ob))) : RowsAt(st, c[1], c[2], c[3]) # {}}

\* C19: Fits(x, y, z, o) is true exactly when no record lies in the box
\* x <= X < x + o.Width, y <= Y < y + o.Height, z <= Z < z + highest + 1,
\* highest being o's largest integer layer name, 0 without one.
C19_FitsIffBoxEmpty ==
    sres.op = "Fits" =>
        (sres.fits <=> BoxRecords(store, sres.x, sres.y, sres.z, obj) = {})

\* Fits is false with a two-level object although every record of the box
\* lies under an empty cell of the object
C19_Witness ==
    /\ sres.op = "Fits" /\ ~sres.fits
    /\ LargestLayer(obj) = 1
    /\ \A c \in BoxRecords(store, sres.x, sres.y, sres.z, obj) :
          ~SourceAt(obj, c[1] - sres.x, c[2] - sres.y, c[3] - sres.z)[1]

\* C20 as stated: after an Add that returned no error, the stored bag of
\* every placed source s reports every key of o's bag for s as o does, and
\* every other key of the bag stored before as it was
C20_StoreAddMerges ==
    (sres.op = "Add" /\ ~sres.err /\ ~sres.panic) =>
        \A s \in PlacedSources(obj) :
            /\ \A k \in KeysOf(Properties(obj, s)) :
                  Entry(InfiniteMapProperties(store, s), k) = Entry(Properties(obj, s), k)
            /\ \A k \in KeysOf(InfiniteMapProperties(sres.pre, s)) \ KeysOf(Properties(obj, s)) :
                  Entry(InfiniteMapProperties(store, s), k)
                     = Entry(InfiniteMapProperties(sres.pre, s), k)

-----------------------------------------------------------------------------
(* Claims about the Map and the InfiniteMap side by side, checked under    *)
(* SpecI                                                                   *)

\* i.Map(tw, th, 0, 0, W, H), its loops ranging in the orders order and ords
Materialized(order, ords) == InfiniteMapMap(store, store, 0, 0, W, H, order, ords)

\* the layers the operations of SpecI can write
AllZs == 0..2

\* the sources that occupy a cell of mp
Occupying(mp) ==
    {SourceAt(mp, x, y, z)[2] :
        <<x, y, z>> \in {c \in (0..(W - 1)) \X (0..(H - 1)) \X AllZs :
                           SourceAt(mp, c[1], c[2], c[3])[1]}}

\* C17 as stated: after the same Set, SetProperties and Add on both, the map
\* that InfiniteMap.Map returns for the region has the source of the Map at
\* every cell and the bag of the Map for every source that occupies a cell
C17_StoreMatchesMap ==
    (~last.panic /\ ~sres.panic /\ ~AddPending) =>
        \A order \in OrdersOf(MapSources(store, store, 0, 0, W, H)),
           ords \in MapOrders(store, store, 0, 0, W, H) :
            /\ ~Materialized(order, ords).err
            /\ \A x \in 0..(W - 1), y \in 0..(H - 1), z \in AllZs :
                  SourceAt(Materialized(order, ords).m, x, y, z) = SourceAt(base, x, y, z)
            /\ \A s \in Occupying(base) :
                  Properties(Materialized(order, ords).m, s) = Properties(base, s)

-----------------------------------------------------------------------------
(* Claims about InfiniteMap.Add step by step, checked under SpecTx         *)

\* the Add of t has ended without returning nil
Ended(t) == t.pc \in {"failed", "crashed", "panicked"}

\* every record of ts is a row of tiles
TilesIn(st, ts) ==
    \A i \in 1..Len(ts) : \E j \in 1..Len(st.tiles) : st.tiles[j] = ts[i]

\* the row of s holds every key of o's bag for s
HoldsKeysOf(st, ob, s) ==
    /\ PropRow(st.properties, s) # 0
    /\ KeysOf(Properties(ob, s)) \subseteq KeysOf(InfiniteMapProperties(st, s))

\* one step of the store and the callers, as C21 describes it
C21_Step ==
    /\ \A p \in Callers :
          (~Ended(calls[p]) /\ Ended(calls'[p])) => store' = store
    /\ \A p \in Callers :
          (Ended(calls'[p]) /\ calls'[p].tiled) => TilesIn(store', TxTilesOf(calls'[p]))
    /\ store'.properties # store.properties =>
          \E p \in Callers :
              /\ calls[p].pc = "exec" /\ calls'[p].pc = "done"
              /\ calls[p].tiled /\ TilesIn(store, TxTilesOf(calls[p]))
              /\ \A s \in SrcSet(TxTilesOf(calls[p])) : HoldsKeysOf(store', calls[p].o, s)

\* C21: the step in which an Add fails or the process dies leaves the tile
\* and the property records as they are, the tile records of an Add that
\* ended after its tile batch are in the store, and the property records
\* change only in the commit of an Add whose tiles are written, and then
\* for all of its sources at once.
C21_TilesFirstPropsAtomic == [][C21_Step]_vars

\* an Add of two sources ended after its rows were handed to the
\* transaction, while the other caller had done nothing: its tiles are in
\* the store and neither source got its row
C21_Witness ==
    \E p \in Callers :
        /\ Ended(calls[p]) /\ calls[p].at = "exec"
        /\ Cardinality(SrcSet(TxTilesOf(calls[p]))) = 2
        /\ TilesIn(store, TxTilesOf(calls[p]))
        /\ PropRow(store.properties, "c") = 0
        /\ \A q \in Callers \ {p} : calls[q].pc = "start"

\* both callers have read, and each read before the Add of the other had
\* committed
Raced(cs) == \A p \in Callers : cs[p].hasRead /\ cs[p].sawDone = {}

\* both callers read the same stored bag for "b"
ReadSame(cs) == SavedProps(cs[1].existing, "b") = SavedProps(cs[2].existing, "b")

\* C22, amended: the property transactions of two Adds are serialised by
\* the locks of the database file: when each of them has read the stored
\* bags before the other has committed, at most one of them commits, and
\* the stored bag of a source holds every key of every Add that committed.
C22_NoLostUpdate ==
    /\ Raced(calls) => ~(\A p \in Callers : calls[p].pc = "done")
    /\ \A p \in Callers :
          calls[p].pc = "done" =>
              \A s \in SrcSet(TxTilesOf(calls[p])) : HoldsKeysOf(store, calls[p].o, s)

\* both read before either had committed, one committed, the other was
\* refused for the lock
C22_Witness ==
    /\ Raced(calls)
    /\ \E p \in Callers, q \in Callers :
          /\ calls[p].pc = "done"
          /\ calls[q].pc = "failed" /\ calls[q].err = "locked"

\* the outcome C22 describes: both Adds read the same stored bag for "b",
\* each before the other had committed, both committed, and the stored bag
\* lacks a key of one of them
LostUpdate(n) ==
    /\ \A p \in Callers : n.calls[p].pc = "done"
    /\ Raced(n.calls) /\ ReadSame(n.calls)
    /\ \E p \in Callers : ~HoldsKeysOf(n.store, n.calls[p].o, "b")

\* the first of the initial states of SpecTx
TxFirst == CHOOSE n \in TxInits : TRUE

\* C22 as stated: there are two Adds of the same source and an interleaving
\* of their steps that ends in a lost update.  The statement speaks of all
\* the initial states and all the interleavings at once, not of the state
\* it is evaluated in; it is evaluated in the first initial state.
C22_LostUpdateReachable ==
    (store = TxFirst.store /\ calls = TxFirst.calls) =>
        \E i \in TxInits : \E n \in TxReachable({}, {i}) : LostUpdate(n)

-----------------------------------------------------------------------------
(* Claims about InfiniteMap.Map, checked under SpecM                       *)

\* the rectangle of the last Map call is empty or inverted
InvalidRegion == sres.x1 <= sres.x \/ sres.y1 <= sres.y

\* a step of Map: its first statement or the return before it, or its
\* second statement and the return
MapStep ==
    \/ sres.op # "MapTiles" /\ sres'.op \in {"MapTiles", "Map"}
    \/ sres.op = "MapTiles" /\ sres'.op = "Map"

\* what C23 says of a Map that has returned
MapRegionOut ==
    sres.op = "Map" =>
        /\ InvalidRegion =>
              /\ sres.out.err /\ sres.out.isNil
              /\ sres.out = InfiniteMapMap(EmptyStore, EmptyStore, sres.x, sres.y,
                                           sres.x1, sres.y1, <<>>, <<>>)
        /\ (~InvalidRegion /\ ~sres.out.isNil) =>
              /\ ~sres.out.err
              /\ sres.out.m.Width = sres.x1 - sres.x
              /\ sres.out.m.Height = sres.y1 - sres.y

\* one step of the store, as C23 describes it
C23_Step == MapStep => store' = store /\ MapRegionOut'

\* C23: Map returns an error and no map when x1 <= x0 or y1 <= y0, the same
\* whatever the store holds, and no step of Map changes the store; a map
\* that Map returns for x1 > x0 and y1 > y0 has Width x1 - x0 and Height
\* y1 - y0.
C23_MapRegion == [][C23_Step]_vars

\* Map refused an inverted rectangle over a store that holds a tile in it
C23_Witness ==
    /\ sres.op = "Map" /\ sres.x1 < sres.x /\ sres.out.err /\ sres.out.isNil
    /\ Len(store.tiles) = 2

\* the cell (cx, cy, z) of the map returned for the rectangle at (x0, y0)
\* shows the record of (x0 + cx, y0 + cy, z): its source when the record
\* names one, nothing when there is no record
ShowsRecord(st, mp, x0, y0, cx, cy, z) ==
    IF RowsAt(st, x0 + cx, y0 + cy, z) = {} THEN ~SourceAt(mp, cx, cy, z)[1]
    ELSE InfiniteMapAt(st, x0 + cx, y0 + cy, z) # "" =>
            SourceAt(mp, cx, cy, z) = <<TRUE, InfiniteMapAt(st, x0 + cx, y0 + cy, z)>>

\* C25 as stated: the map that Map returns holds every tile record of the
\* rectangle, as Map read them, at the cell (X - x0, Y - y0, Z) and nothing
\* in any other cell, wherever the rectangle lies
C25_MapLocalCells ==
    (sres.op = "Map" /\ ~sres.out.isNil) =>
        \A cx \in 0..(sres.out.m.Width - 1), cy \in 0..(sres.out.m.Height - 1), z \in Zs :
            ShowsRecord(sres.pre, sres.out.m, sres.x, sres.y, cx, cy, z)

-----------------------------------------------------------------------------
(* Claims about the automatic z-offset, checked under Spec                 *)

\* the z-levels of mp at which (x, y) holds a tile
OccupiedLevels(mp, x, y) ==
    {ZLevels(mp)[i] : i \in {j \in 1..Len(ZLevels(mp)) : ~At(mp, x, y, ZLevels(mp)[j]).isNil}}

\* the highest of them, 0 when there is none
HighestOccupied(mp, x, y) ==
    IF OccupiedLevels(mp, x, y) = {} THEN 0
    ELSE CHOOSE L \in OccupiedLevels(mp, x, y) : \A K \in OccupiedLevels(mp, x, y) : K <= L

\* C24 as stated: Fits and Add called with zoffset < 0 place the object at
\* the highest z-level of m at which At(x, y, level) is not nil, and at 0 when
\* there is none: they answer and write as the same call with that offset
C24_AutoZOffset ==
    /\ (last.op = "Fits" /\ last.z < 0) =>
          last.fits = Fits(last.pre, last.x, last.y, HighestOccupied(last.pre, last.x, last.y), obj)
    /\ (last.op = "Add" /\ last.z < 0) =>
          \E ords \in AddOrders(last.pre, obj) :
              base = Add(last.pre, last.x, last.y,
                         HighestOccupied(last.pre, last.x, last.y), obj, ords).m

-----------------------------------------------------------------------------
(* Claims about Decode and the ids of tiles and cells, checked under SpecD *)

RECURSIVE MaxIdFrom(_, _, _)
\* the largest ID among tiles[i..], and top when that is larger
MaxIdFrom(tiles, i, top) ==
    IF i > Len(tiles) THEN top
    ELSE MaxIdFrom(tiles, i + 1, IF tiles[i].ID > top THEN tiles[i].ID ELSE top)

\* the largest tile id of mp's tileset, 0 for a tileset without tiles
MaxTileId(mp) == MaxIdFrom(TilesOf(mp), 1, 0)

\* C26 as stated: the map that Decode returns has nextID equal to the
\* largest tile id of its tileset plus one, and a tile that a later Set or
\* SetProperties adds has an id above every id the tileset held before
C26_DecodeNextID ==
    (dm.done /\ ~dm.isNil) =>
        /\ nops.dec = 0 => dm.m.nextID = MaxTileId(dm.m) + 1
        /\ (last.op \in {"DecSet", "DecSetProperties"}
              /\ Len(TilesOf(dm.m)) > Len(TilesOf(last.pre))) =>
                 TilesOf(dm.m)[Len(TilesOf(dm.m))].ID > MaxTileId(last.pre)

\* the ids that the grid text of layer li of the file holds
OnDisk(li) == decodeCSV(file.doc.TileLayers[li].RawData).gids

\* the local id of the on-disk id g of a file whose tileset starts at first
LocalId(g, first) == IF g = 0 THEN 0 ELSE g - first

\* C27 as stated: the cells of the map that Decode returns hold the on-disk
\* id less firstGID (0 for an empty cell), the tiles are indexed under their
\* local ids, and Encode of that map writes local id + firstGID, which are
\* the ids of the file it was read from
C27_LocalIds ==
    (dm.done /\ ~dm.isNil /\ ~file.edited /\ nops.dec = 0) =>
        /\ \A li \in 1..Len(dm.m.TileLayers) :
              \A k \in 1..Len(dm.m.TileLayers[li].decodedTiles) :
                  dm.m.TileLayers[li].decodedTiles[k]
                      = LocalId(OnDisk(li)[k], dm.m.Tilesets[1].FirstGID)
        /\ \A i \in 1..Len(TilesOf(dm.m)) :
              /\ TilesOf(dm.m)[i].ID \in DOMAIN dm.m.Tilesets[1].tileByID
              /\ dm.m.Tilesets[1].tileByID[TilesOf(dm.m)[i].ID] = i
        /\ ~EncodePanics(dm.m) =>
              \A iorder \in SortOrders(dm.m.ImageLayers),
                 torder \in SortOrders(dm.m.TileLayers) :
                  \A li \in 1..Len(dm.m.TileLayers) :
                      decodeCSV(Encode(dm.m, iorder, torder).doc.TileLayers[li].RawData).gids
                          = OnDisk(li)

-----------------------------------------------------------------------------
(* Claims about the layers that Encode writes, checked under SpecL         *)

\* the names of layers, as a bag
NameBag(layers) == [n \in {layers[i].Name : i \in 1..Len(layers)} |->
                       Cardinality({i \in 1..Len(layers) : layers[i].Name = n})]

\* every layer has the id of its place, counted from first
NumberedFrom(layers, first) == \A i \in 1..Len(layers) : layers[i].ID = first + i - 1

\* a layer further on has a larger integer name
AscendingZ(layers) ==
    \A i \in 1..Len(layers), j \in 1..Len(layers) :
        i < j => ParseInt(layers[i].Name).val < ParseInt(layers[j].Name).val

\* no layer stands before one of a smaller key; layers of one key stand in
\* any order
AscendingKey(layers) ==
    \A i \in 1..Len(layers), j \in 1..Len(layers) :
        i < j => LayerKey(layers[i]) <= LayerKey(layers[j])

\* of two layers the one with the larger integer name has the larger id
HigherZHigherId(layers) ==
    \A i \in 1..Len(layers), j \in 1..Len(layers) :
        LayerKey(layers[i]) < LayerKey(layers[j]) => layers[i].ID < layers[j].ID

\* C28: after Encode the tile layers of the map, and of the document, are
\* the layers of before in ascending order of the integer value of their
\* names, whatever order the sort leaves layers of one key in; the image
\* layers, sorted by the same key, have the ids 1..k and the tile layers
\* the ids k+1..k+n in that order, so that a higher z-level has a higher id.
C28_EncodeOrdersLayers ==
    last.op = "Encode" =>
        /\ NameBag(base.TileLayers) = NameBag(last.pre.TileLayers)
        /\ NameBag(base.ImageLayers) = NameBag(last.pre.ImageLayers)
        /\ AscendingZ(base.TileLayers)
        /\ AscendingKey(base.ImageLayers)
        /\ NumberedFrom(base.ImageLayers, 1)
        /\ NumberedFrom(base.TileLayers, Len(base.ImageLayers) + 1)
        /\ HigherZHigherId(base.TileLayers)
        /\ Len(file.doc.TileLayers) = Len(base.TileLayers)
        /\ \A i \in 1..Len(base.TileLayers) :
              /\ file.doc.TileLayers[i].Name = base.TileLayers[i].Name
              /\ file.doc.TileLayers[i].ID = base.TileLayers[i].ID
        /\ file.doc.ImageLayers = base.ImageLayers

\* Encode of a map whose image layers "1", "0" and "background" include two
\* of key 0, and whose layer "10" was created before its layer "2": the
\* image layers have the ids 1..3, "1" last, and the file has "2" with id 4
\* and "10" with id 5
C28_Witness ==
    /\ last.op = "Encode"
    /\ Len(last.pre.ImageLayers) = 3
    /\ last.pre.ImageLayers[1].Name = <<"1">>
    /\ last.pre.ImageLayers[2].Name = <<"0">>
    /\ last.pre.ImageLayers[3].Name = BackgroundName
    /\ LayerKey(last.pre.ImageLayers[2]) = LayerKey(last.pre.ImageLayers[3])
    /\ base.ImageLayers[3].Name = <<"1">> /\ base.ImageLayers[3].ID = 3
    /\ Len(last.pre.TileLayers) = 2
    /\ last.pre.TileLayers[1].Name = <<"1", "0">>
    /\ last.pre.TileLayers[2].Name = <<"2">>
    /\ file.doc.TileLayers[1].Name = <<"2">> /\ file.doc.TileLayers[1].ID = 4
    /\ file.doc.TileLayers[2].Name = <<"1", "0">> /\ file.doc.TileLayers[2].ID = 5

-----------------------------------------------------------------------------
(* Claims about what Set, SetProperties and Add keep, checked under Spec   *)

\* the tiles and the layers of before are those of after, in their places,
\* with their ids, sources and names
KeepsTilesAndLayers(before, after) ==
    /\ Len(TilesOf(after)) >= Len(TilesOf(before))
    /\ \A i \in 1..Len(TilesOf(before)) :
          /\ TilesOf(after)[i].ID = TilesOf(before)[i].ID
          /\ TilesOf(after)[i].Source = TilesOf(before)[i].Source
    /\ Len(after.TileLayers) >= Len(before.TileLayers)
    /\ \A i \in 1..Len(before.TileLayers) :
          after.TileLayers[i].Name = before.TileLayers[i].Name

\* no two layers of mp have the same name
OneLayerPerName(mp) ==
    \A i \in 1..Len(mp.TileLayers), j \in 1..Len(mp.TileLayers) :
        i # j => mp.TileLayers[i].Name # mp.TileLayers[j].Name

\* the names of the layers that after has and before has not
NewLayerNames(before, after) ==
    {after.TileLayers[i].Name : i \in (Len(before.TileLayers) + 1)..Len(after.TileLayers)}

\* the names of the z-levels that op writes to on the map before
WrittenLevels(op, before, ob) ==
    IF op.op \in {"Set", "ObjSet"} THEN {Itoa(op.z)}
    ELSE IF op.op = "Add"
    THEN {Itoa(ZLevels(ob)[i] + ResolveZOffset(before, op.x, op.y, op.z)) :
             i \in 1..Len(ZLevels(ob))}
    ELSE {}

\* one step on the map and on the object, as C29 describes it
C29_Step ==
    /\ KeepsTilesAndLayers(base, base') /\ OneLayerPerName(base')
    /\ KeepsTilesAndLayers(obj, obj') /\ OneLayerPerName(obj')
    /\ NewLayerNames(base, base') \subseteq WrittenLevels(last', base, obj)
    /\ NewLayerNames(obj, obj') \subseteq WrittenLevels(last', obj, obj)

\* C29: Set, SetProperties and Add never remove a tile from the tileset nor
\* change the id or the source of one, never remove a layer, keep at most
\* one layer of a name, and create a layer only for a z-level they write to.
C29_StructureGrows == [][C29_Step]_vars

\* an Add that brought the map a second tile and a second layer
C29_Witness ==
    /\ last.op = "Add" /\ ~last.panic
    /\ Len(last.pre.TileLayers) = 1 /\ Len(base.TileLayers) = 2
    /\ Len(TilesOf(last.pre)) = 1 /\ Len(TilesOf(base)) = 2

\* the destinations of the non-empty cells of ob's integer-named layers for
\* an Add at (x, y) with the offset zoffset
Destinations(ob, x, y, zoffset) ==
    {<<x + (k % ob.Width), y + (k \div ob.Width), zoffset + ParseInt(ob.TileLayers[li].Name).val>> :
        <<li, k>> \in {c \in (1..Len(ob.TileLayers)) \X (0..(ob.Width * ob.Height - 1)) :
                         /\ ParseIntOk(ob.TileLayers[c[1]].Name)
                         /\ ob.TileLayers[c[1]].decodedTiles[c[2] + 1] # 0}}

\* C30 as stated: Add changes no cell of m but the destinations, inside m,
\* of the non-empty cells of o; a cell that is no such destination shows
\* after the Add what it showed before
C30_AddFrame ==
    (last.op = "Add" /\ ~last.panic) =>
        \A cx \in 0..(W - 1), cy \in 0..(H - 1), z \in AllZs :
            <<cx, cy, z>> \notin Destinations(obj, last.x, last.y,
                                              ResolveZOffset(last.pre, last.x, last.y, last.z))
                => SourceAt(base, cx, cy, z) = SourceAt(last.pre, cx, cy, z)

\* every cell of mp holds 0 or the id of a tile of the tileset
ValidCells(mp) ==
    \A li \in 1..Len(mp.TileLayers) :
        \A k \in 1..Len(mp.TileLayers[li].decodedTiles) :
            \/ mp.TileLayers[li].decodedTiles[k] = 0
            \/ \E i \in 1..Len(TilesOf(mp)) :
                  TilesOf(mp)[i].ID = mp.TileLayers[li].decodedTiles[k]

\* C31 as stated: Add returns without a fault for every anchor and every
\* object, a destination outside m's bounds and a source that m does not
\* know included, and leaves every cell of m with 0 or the id of a tile
C31_AddNeverFaults ==
    last.op = "Add" => (~last.panic /\ ValidCells(base))

-----------------------------------------------------------------------------
(* Claims about what Encode and the lookups leave alone                    *)

\* the two documents hold the same ids in the grid of every layer
SameGrids(d1, d2) ==
    /\ Len(d1.TileLayers) = Len(d2.TileLayers)
    /\ \A li \in 1..Len(d1.TileLayers) :
          decodeCSV(d1.TileLayers[li].RawData).gids = decodeCSV(d2.TileLayers[li].RawData).gids

\* C32 as stated: after Encode the map, created by New or produced by
\* Decode, reports at every cell and for every source what it reported
\* before, and the next Encode writes the ids that this one wrote
C32_EncodeKeepsContent ==
    /\ last.op = "Encode" =>
          /\ SameContent(last.pre, base)
          /\ \A iorder \in SortOrders(base.ImageLayers),
                torder \in SortOrders(base.TileLayers) :
                 SameGrids(Encode(base, iorder, torder).doc, file.doc)
    /\ last.op = "DecEncode" =>
          /\ SameContent(last.pre, dm.m)
          /\ \A iorder \in SortOrders(dm.m.ImageLayers),
                torder \in SortOrders(dm.m.TileLayers) :
                 SameGrids(Encode(dm.m, iorder, torder).doc, file.doc)

\* one step, as C33 describes it: a lookup, and a change to the bag a
\* lookup returned, leave the map and the object as they are; Add leaves
\* the object as it is
C33_Step ==
    /\ last'.op \in {"At", "Properties", "ZLevels", "Fits", "ChangeBag"} =>
          /\ base' = base /\ obj' = obj
          /\ \A s \in Srcs \cup ObjSrcs : Properties(base', s) = Properties(base, s)
    /\ last'.op = "ChangeBag" => last'.bag # last.bag
    /\ last'.op = "Add" => obj' = obj

\* C33: Fits, At, Properties and ZLevels leave the layers, the cells, the
\* tileset and the bags of m as they are, a change to a bag they returned
\* does not reach the map, and neither Fits nor Add changes o.
C33_LookupsReadOnly == [][C33_Step]_vars

\* At was asked for a cell of a layer the map does not have, and the map
\* has no layer of that name afterwards
C33_Witness ==
    /\ last.op = "At" /\ last.z = 1
    /\ Len(base.TileLayers) = 1 /\ LayerOfZ(base, 1) = 0
    /\ last.bag.isNil

-----------------------------------------------------------------------------
(* Claims about InfiniteMap.Fits and the cells of the object, under SpecF  *)

\* C34 as stated: when Fits(x, y, z, o) is true, no non-empty cell of an
\* integer-named layer of o, a layer below 0 included, has a destination
\* that holds a tile record
C34_FitsConservative ==
    (sres.op = "Fits" /\ sres.fits) =>
        \A d \in Destinations(obj, sres.x, sres.y, sres.z) :
            RowsAt(store, d[1], d[2], d[3]) = {}

-----------------------------------------------------------------------------
(* Claims about Map over a rectangle without records, under SpecM          *)

\* no tile record of st lies in the rectangle
NoRecordIn(st, x0, y0, x1, y1) == RegionSrcs(st.tiles, 1, x0, y0, x1, y1) = <<>>

\* C35 as stated: Map over a valid rectangle that held no tile record when
\* Map read it returns no error and a map of the size of the rectangle
\* without layers and without tiles, whatever else the store holds
C35_EmptyRegionSucceeds ==
    (sres.op = "Map" /\ ~InvalidRegion
        /\ NoRecordIn(sres.pre, sres.x, sres.y, sres.x1, sres.y1)) =>
            /\ ~sres.out.err /\ ~sres.out.isNil
            /\ sres.out.m.Width = sres.x1 - sres.x
            /\ sres.out.m.Height = sres.y1 - sres.y
            /\ sres.out.m.TileLayers = <<>>
            /\ TilesOf(sres.out.m) = <<>>

=============================================================================
